---------------------------- MODULE Spec2Model ----------------------------
(***************************************************************************)
(* A model of the relative-clause extractor (relative_clause_extractor.py). *)
(* Sentences are sequences of tokens (strings); a dependency parse is four *)
(* parallel arrays; the SBAR spans are strings of space-joined leaves.     *)
(* Python indices are 0-based: PyGet/PySlice translate them, negative      *)
(* indices included.  Strings are ASCII: the stand-in "u2014" is the       *)
(* em-dash character.                                                      *)
(***************************************************************************)
EXTENDS Integers, Sequences, FiniteSets, TLC

(***************************************************************************)
(* Python values                                                           *)
(***************************************************************************)

\* Python's None where a string is expected (no token of the corpus is "None").
None == "None"

\* The em-dash U+2014 (the module's strings are ASCII).
EmDash == "u2014"

Min(a, b) == IF a < b THEN a ELSE b

Max(a, b) == IF a > b THEN a ELSE b

\* seq[k] of Python is defined for -len <= k < len.
InRange(seq, k) == k < Len(seq) /\ k >= 0 - Len(seq)

\* seq[k] of Python (k 0-based, a negative k counts from the end).
PyGet(seq, k) == IF k >= 0 THEN seq[k + 1] ELSE seq[Len(seq) + k + 1]

\* A slice bound of Python clamped into 0..len.
PyBound(n, k) == IF k < 0 THEN Max(n + k, 0) ELSE Min(k, n)

\* seq[a:b] of Python.
PySlice(seq, a, b) ==
    LET lo == PyBound(Len(seq), a)
        hi == PyBound(Len(seq), b)
    IN  IF lo < hi THEN SubSeq(seq, lo + 1, hi) ELSE <<>>

(***************************************************************************)
(* Strings                                                                 *)
(***************************************************************************)

Char(s, i) == SubSeq(s, i, i)

\* a in b of Python, on strings (substring test).
IsSubstr(a, b) ==
    \/ Len(a) = 0
    \/ \E i \in 1..(Len(b) - Len(a) + 1) : SubSeq(b, i, i + Len(a) - 1) = a

\* s.endswith(suf)
EndsWith(s, suf) ==
    Len(suf) <= Len(s) /\ SubSeq(s, Len(s) - Len(suf) + 1, Len(s)) = suf

UpperLetters == "ABCDEFGHIJKLMNOPQRSTUVWXYZ"

LowerLetters == "abcdefghijklmnopqrstuvwxyz"

\* The upper-case letters, and the lower-case letter of each.
UpperSet == {Char(UpperLetters, i) : i \in 1..26}

LowerOf ==
    [c \in UpperSet |->
        Char(LowerLetters, CHOOSE i \in 1..26 : Char(UpperLetters, i) = c)]

LowerChar(c) == IF c \in UpperSet THEN LowerOf[c] ELSE c

RECURSIVE Lower(_)
\* s.lower()
Lower(s) == IF Len(s) = 0 THEN "" ELSE LowerChar(Char(s, 1)) \o Lower(Tail(s))

\* string.punctuation without the backquote, which a string of this module
\* cannot hold (the curly quotes of line 213 are not ASCII either); no token of
\* the corpus holds one of them.
Punctuation ==
    {"!", "\"", "#", "$", "%", "&", "'", "(", ")", "*", "+", ",", "-", ".",
     "/", ":", ";", "<", "=", ">", "?", "@", "[", "\\", "]", "^", "_", "{",
     "|", "}", "~"}

RECURSIVE LStrip(_, _)
LStrip(s, chars) ==
    IF Len(s) > 0 /\ Char(s, 1) \in chars THEN LStrip(Tail(s), chars) ELSE s

RECURSIVE RStrip(_, _)
RStrip(s, chars) ==
    IF Len(s) > 0 /\ Char(s, Len(s)) \in chars
    THEN RStrip(SubSeq(s, 1, Len(s) - 1), chars)
    ELSE s

\* s.strip(chars)
Strip(s, chars) == RStrip(LStrip(s, chars), chars)

RECURSIVE RemoveChar(_, _)
\* s.replace(c, "") for a one-character c
RemoveChar(s, c) ==
    IF Len(s) = 0 THEN ""
    ELSE (IF Char(s, 1) = c THEN "" ELSE Char(s, 1)) \o RemoveChar(Tail(s), c)

RECURSIVE CountChar(_, _)
\* s.count(c) for a one-character c
CountChar(s, c) ==
    IF Len(s) = 0 THEN 0
    ELSE (IF Char(s, 1) = c THEN 1 ELSE 0) + CountChar(Tail(s), c)

RECURSIVE JoinSp(_)
\* " ".join(tokens)
JoinSp(tokens) ==
    IF Len(tokens) = 0 THEN ""
    ELSE IF Len(tokens) = 1 THEN tokens[1]
    ELSE tokens[1] \o " " \o JoinSp(Tail(tokens))

RECURSIVE SplitFrom(_, _, _)
\* The words of s from position i on, cur being the word read so far.
SplitFrom(s, i, cur) ==
    IF i > Len(s) THEN (IF cur = "" THEN <<>> ELSE <<cur>>)
    ELSE IF Char(s, i) = " "
         THEN (IF cur = "" THEN <<>> ELSE <<cur>>) \o SplitFrom(s, i + 1, "")
         ELSE SplitFrom(s, i + 1, cur \o Char(s, i))

\* s.split(): the whitespace-separated words of s.
Split(s) == SplitFrom(s, 1, "")

\* s.split(" "): the fields between single spaces, empty ones included; its
\* length is what line 673 records.
SplitOnSpaceLen(s) == CountChar(s, " ") + 1

(***************************************************************************)
(* The closed word lists of RelativeClause.__init__                        *)
(***************************************************************************)

relativizer_list ==
    {"which", "whichever", "that", "who", "whom", "whose", "whoever",
     "whomever", "what", "whatever", "where", "when", "why"}

rc_attracting_nouns ==
    {"thing", "things", "way", "ways", "time", "times", "place", "places",
     "person", "people", "man", "woman", "someone", "anyone", "everyone",
     "something", "anything", "everything", "nothing", "one", "ones",
     "book", "books", "moment", "moments", "day", "days", "year", "years"}

complement_attracting_nouns ==
    {"fact", "facts", "idea", "ideas", "belief", "claim", "claims", "notion",
     "thought", "question", "problem", "issue", "issues", "evidence", "form",
     "forms"}

manner_head_nouns == {"way", "ways", "time", "times", "manner", "manners"}

modal_aux_tokens ==
    {"can", "cannot", "could", "couldn", "couldnt", "may", "might", "must",
     "mustn", "mustnt", "shall", "shan", "shant", "should", "shouldn",
     "shouldnt", "will", "won", "wont", "would", "wouldn", "wouldnt",
     "needn", "neednt"}

auxiliary_clause_endings ==
    {"be", "been", "being", "am", "is", "are", "was", "were",
     "have", "has", "had", "do", "does", "did", "done", "doing"}

passive_auxiliaries ==
    {"be", "been", "being", "am", "is", "are", "was", "were",
     "get", "gets", "got", "getting", "gotten", "become", "becomes", "became"}

irregular_passive_verbs ==
    {"born", "brought", "bought", "built", "caught", "chosen", "dealt", "done",
     "driven", "drunk", "drawn", "eaten", "felt", "found", "forgiven",
     "forgotten", "given", "gone", "grown", "heard", "held", "kept", "known",
     "left", "lost", "made", "paid", "put", "read", "run", "said", "seen",
     "sold", "sent", "set", "shot", "shown", "spoken", "spent", "stood",
     "taken", "taught", "told", "thrown", "worn", "written"}

\* The head-noun relations process_relative_clause accepts (line 417).
head_relations ==
    {"nsubj", "dobj", "iobj", "csubj", "nsubjpass", "poss", "nmod", "compound"}

\* common_preps of line 445.
common_preps ==
    {"of", "in", "on", "at", "by", "for", "with", "from", "to", "about"}

\* problematic_patterns of is_temporary_ambiguity.
problematic_patterns ==
    {"to be", "to do", "to have", "to get", "to make", "to go", "to see",
     "to know", "to think", "to want", "to need", "to try", "to like"}

\* The markers a span of relative_clause must contain (line 397).
span_markers ==
    {"who", "whom", "whose", "which", "that", "where", "when", "why"}

\* The contraction fragments of the gate's third pre-reject (line 493).
contraction_fragments == {"'", "'ve", "'re", "'s", "'m", "'ll", "'d"}

\* The words nltk.pos_tag gives a tag starting with VB, here a lexicon: the
\* tagger is a function of the token sequence alone.
nltk_verbs ==
    {"read", "left", "saw", "turned", "spoke", "gave", "made", "was", "is",
     "have", "should", "had", "seen", "did", "went", "met", "like", "broke",
     "fell"}

(***************************************************************************)
(* Heuristic helpers                                                       *)
(***************************************************************************)

\* _normalize_token: apostrophes unified, lower-cased, punctuation stripped
\* from both ends, apostrophes removed.
_normalize_token(token) ==
    IF token = "" THEN ""
    ELSE RemoveChar(Strip(Lower(token), Punctuation), "'")

\* The list `tokens` every helper builds: the non-empty normalized words.
NormalizedTokens(rc_words) ==
    SelectSeq([k \in 1..Len(rc_words) |-> _normalize_token(rc_words[k])],
              LAMBDA t : t # "")

is_temporary_ambiguity(text, index_of_clause_verb) ==
    LET next_words ==
            [k \in 1..Max(Min(3, Len(text) - 1 - index_of_clause_verb), 0)
                |-> Lower(text[index_of_clause_verb + k + 1])]
    IN  \/ Len(next_words) >= 1 /\ next_words[1] = "to"
        \/ /\ Len(next_words) >= 2
           /\ (next_words[1] \o " " \o next_words[2]) \in problematic_patterns

\* The manner filter looking at the first token of every clause, a zero
\* relative included.
_looks_like_manner_clause_first_token(head_noun_lower, relativizer, rc_words) ==
    LET tokens == NormalizedTokens(rc_words)
    IN  IF head_noun_lower \notin manner_head_nouns THEN FALSE
        ELSE IF Len(tokens) = 0 THEN FALSE
        ELSE tokens[1] \in {"that", "where", "when", "how"}

_looks_like_manner_clause(head_noun_lower, relativizer, rc_words) ==
    LET tokens == NormalizedTokens(rc_words)
    IN  IF head_noun_lower \notin manner_head_nouns THEN FALSE
        ELSE IF Len(tokens) = 0 THEN FALSE
        ELSE IF relativizer = "zero" THEN TRUE
        ELSE tokens[1] \in {"that", "where", "when", "how"}

_is_complement_clause(head_noun_lower, relation_to_main, relativizer_role, relativizer) ==
    /\ head_noun_lower \in complement_attracting_nouns
    /\ relation_to_main \in {"dobj", "iobj"}
    /\ relativizer = "that"
    /\ relativizer_role \in {"mark", "complm"}

_is_pp_fronted_without_gap(head_noun_lower, relativizer_role, preposition_before_relativizer, rc_words) ==
    LET tokens == NormalizedTokens(rc_words)
    IN  IF preposition_before_relativizer \in {None, ""}
           \/ relativizer_role # "pobj"
        THEN FALSE
        ELSE IF Len(tokens) < 2 THEN FALSE
        ELSE IF tokens[1] # "to" \/ tokens[2] \notin {"which", "whom"}
        THEN FALSE
        ELSE IF head_noun_lower \notin complement_attracting_nouns THEN FALSE
        ELSE _normalize_token(preposition_before_relativizer) = "to"

_is_aux_fragment(relativizer, rc_words) ==
    LET tokens == NormalizedTokens(rc_words)
    IN  IF relativizer # "zero" THEN FALSE
        ELSE IF Len(tokens) = 0 THEN TRUE
        ELSE IF Len(tokens) > 6 THEN FALSE
        ELSE IF tokens[Len(tokens)] \notin auxiliary_clause_endings THEN FALSE
        ELSE \E k \in 1..(Len(tokens) - 1) :
                tokens[k] \in modal_aux_tokens \cup auxiliary_clause_endings

\* The test without the list of irregular participles.
LooksParticipleRegular(nxt) == EndsWith(nxt, "ed")

\* nxt.endswith("ed") or nxt in self.irregular_passive_verbs
LooksParticiple(nxt) == EndsWith(nxt, "ed") \/ nxt \in irregular_passive_verbs

_looks_passive_clause(rc_words) ==
    LET tokens == NormalizedTokens(rc_words)
        length == Len(tokens)
    IN  /\ length >= 2
        /\ \E idx \in 0..(length - 1) :
            \/ /\ tokens[idx + 1] \in passive_auxiliaries
               /\ idx + 1 < length
               /\ LooksParticiple(tokens[idx + 2])
            \/ /\ tokens[idx + 1] \in modal_aux_tokens
               \* the window idx+1 .. min(length, idx+4)-1, left at the first
               \* passive auxiliary (the break of line 308)
               /\ \E j \in (idx + 1)..(Min(length, idx + 4) - 1) :
                    /\ tokens[j + 1] \in passive_auxiliaries
                    /\ \A m \in (idx + 1)..(j - 1) :
                            tokens[m + 1] \notin passive_auxiliaries
                    /\ j + 1 < length
                    /\ LooksParticiple(tokens[j + 2])

(***************************************************************************)
(* Span extraction                                                         *)
(***************************************************************************)

\* The number of hash seeds a process may start with: the iteration orders of
\* set(subtrees) the model tells apart.
NumHashSeeds == 2

RECURSIVE Dedup(_)
\* The distinct elements of seq, each at its first place.
Dedup(seq) ==
    IF Len(seq) = 0 THEN <<>>
    ELSE LET front == Dedup(SubSeq(seq, 1, Len(seq) - 1))
             last == seq[Len(seq)]
         IN  IF \E k \in 1..Len(front) : front[k] = last THEN front
             ELSE Append(front, last)

Reverse(seq) == [k \in 1..Len(seq) |-> seq[Len(seq) + 1 - k]]

Rotate(seq, r) ==
    [k \in 1..Len(seq) |-> seq[((k - 1 + r) % Len(seq)) + 1]]

\* The order in which `for subtree in set(subtrees)` visits the distinct spans.
\* Python salts the hash of a str per process, so the order is fixed within a
\* process and differs between processes: seed 0 visits them as listed, an odd
\* seed backwards, a larger seed rotated.
SetIterationOrder(seed, subtrees) ==
    LET d == Dedup(subtrees)
        base == IF seed % 2 = 1 THEN Reverse(d) ELSE d
    IN  IF Len(d) = 0 THEN d ELSE Rotate(base, seed \div 2)

\* any(tag[1].startswith('VB') for tag in nltk.pos_tag(subtree.split()))
HasVerbalTag(subtree) ==
    LET ws == Split(subtree) IN \E k \in 1..Len(ws) : ws[k] \in nltk_verbs

\* Some i of range(first, len(text)) has
\* " ".join(text[i:i+len(subtree.split())]) == subtree.
OccursFrom(text, subtree, first) ==
    LET n == Len(Split(subtree))
    IN  \E i \in first..(Len(text) - 1) :
            JoinSp(PySlice(text, i, i + n)) = subtree

RECURSIVE ZeroFold(_, _, _, _, _)
\* The loop of zero_relative_clause over the spans still to visit; `content`
\* is relative_clause_content, whose length is length_of_RC once it is set.
ZeroFold(order, content, clause_verb, text, index_of_head_noun) ==
    IF Len(order) = 0 THEN content
    ELSE LET subtree == Head(order)
             shorter == content = "" \/ Len(subtree) < Len(content)
             taken == /\ IsSubstr(clause_verb, subtree)
                      /\ shorter
                      /\ OccursFrom(text, subtree, index_of_head_noun)
                      /\ HasVerbalTag(subtree)
         IN  ZeroFold(Tail(order), IF taken THEN subtree ELSE content,
                      clause_verb, text, index_of_head_noun)

zero_relative_clause(subtrees, clause_verb, text, index_of_head_noun, seed) ==
    ZeroFold(SetIterationOrder(seed, subtrees), "", clause_verb, text,
             index_of_head_noun)

RECURSIVE FullFold(_, _, _, _, _)
\* The loop of relative_clause over the spans still to visit.
FullFold(order, content, clause_verb, relativizer, text) ==
    IF Len(order) = 0 THEN content
    ELSE LET subtree == Head(order)
             shorter == content = "" \/ Len(subtree) < Len(content)
             taken == /\ IsSubstr(clause_verb, subtree)
                      /\ IsSubstr(relativizer, subtree)
                      /\ shorter
                      /\ OccursFrom(text, subtree, 0)
                      /\ \E marker \in span_markers : IsSubstr(marker, subtree)
         IN  FullFold(Tail(order), IF taken THEN subtree ELSE content,
                      clause_verb, relativizer, text)

relative_clause(subtrees, clause_verb, relativizer, text, seed) ==
    FullFold(SetIterationOrder(seed, subtrees), "", clause_verb, relativizer,
             text)

(***************************************************************************)
(* process_relative_clause                                                 *)
(*                                                                         *)
(* The outcome of one call is a record.  ok = FALSE is the return of None, *)
(* `why` naming the return taken; ok = TRUE is relativizer_dict, its       *)
(* eleven entries under their own names.  The remaining fields are the     *)
(* locals of the call at its return, kept for the properties; `evaluated`  *)
(* lists the filters and the classifier in the order the call ran them.    *)
(***************************************************************************)

\* The locals before the first assignment.
Locals(index_of_word) ==
    [ok |-> FALSE, why |-> "",
     head_noun |-> "", head_noun_in_main_clause |-> "", clause_verb |-> "",
     filler_gap_dependency |-> 0, restrictiveness |-> "", relativizer |-> "",
     head_noun_in_rc |-> "", relative_clause |-> "",
     relative_clause_length |-> 0, rc_type |-> "", structure_pattern |-> "",
     index_of_word |-> index_of_word, index_of_head_noun |-> 0,
     head_noun_lower |-> "", relativizer_found |-> FALSE,
     index_of_relativizer |-> 0, relativizer_role |-> None,
     has_preposition_before_relativizer |-> FALSE,
     preposition_before_relativizer |-> None,
     rc_words |-> <<>>, gated |-> FALSE, confidence_score |-> 0,
     has_object |-> FALSE, passive_like |-> FALSE, evaluated |-> <<>>]

\* return None, at the place `why`.
Return(c, why) == [c EXCEPT !.ok = FALSE, !.why = why]

\* Lines 427-451: the first relativizer word of range(head, verb), its role,
\* the preposition before it, and the relativizer recorded.
FindRelativizer(c, dataset) ==
    LET h == c.index_of_head_noun
        v == c.index_of_word
        hits == {idx \in h..(v - 1) :
                    PyGet(dataset.words, idx) \in relativizer_list}
    IN  IF hits = {} THEN [c EXCEPT !.relativizer = "zero"]
        ELSE
        LET idx == CHOOSE x \in hits : \A y \in hits : x <= y
            prev_word == PyGet(dataset.words, idx - 1)
            prev_pos == PyGet(dataset.tags, idx - 1)
            is_prep == idx > 0 /\ (prev_pos = "IN"
                                   \/ Lower(prev_word) \in common_preps)
        IN  IF idx > 0 /\ ~InRange(dataset.tags, idx - 1)
            THEN Return(c, "exception")
            ELSE [c EXCEPT
                    !.relativizer_found = TRUE,
                    !.index_of_relativizer = idx,
                    !.relativizer_role = PyGet(dataset.rels, idx),
                    !.has_preposition_before_relativizer = is_prep,
                    !.preposition_before_relativizer =
                        IF is_prep THEN prev_word ELSE None,
                    \* `if index_of_relativizer`: index 0 is falsy
                    !.relativizer =
                        IF idx # 0 THEN PyGet(dataset.words, idx) ELSE "zero"]

\* The check without its comparison: no candidate is taken for inverted.
HeadAfterVerbNever(index_of_word, index_of_head_noun) == FALSE

\* Line 409: the head noun follows the clause verb.
HeadAfterVerb(index_of_word, index_of_head_noun) ==
    index_of_word < index_of_head_noun

\* Lines 408-451: head noun, its relation, the clause verb, the relativizer.
Resolve(text, dataset, index_of_word) ==
    LET c0 == Locals(index_of_word)
    IN  IF ~InRange(dataset.arcs, index_of_word) THEN Return(c0, "exception")
        ELSE
        LET index_of_head_noun == PyGet(dataset.arcs, index_of_word) - 1
            c1 == [c0 EXCEPT !.index_of_head_noun = index_of_head_noun]
        IN  IF HeadAfterVerb(index_of_word, index_of_head_noun)
            THEN Return(c1, "inverted")
            ELSE IF ~InRange(dataset.words, index_of_head_noun)
                    \/ ~InRange(dataset.rels, index_of_head_noun)
            THEN Return(c1, "exception")
            ELSE
            LET head_noun == PyGet(dataset.words, index_of_head_noun)
                relation_to_main == PyGet(dataset.rels, index_of_head_noun)
                c2 == [c1 EXCEPT !.head_noun = head_noun,
                                 !.head_noun_in_main_clause = relation_to_main,
                                 !.head_noun_lower = Lower(head_noun)]
            IN  IF relation_to_main \notin head_relations
                THEN Return(c2, "relation")
                ELSE IF ~InRange(dataset.words, index_of_word)
                THEN Return(c2, "exception")
                ELSE
                LET c3 == [c2 EXCEPT
                             !.clause_verb = PyGet(dataset.words, index_of_word)]
                IN  IF is_temporary_ambiguity(text, index_of_word)
                    THEN Return(c3, "ambiguity")
                    ELSE FindRelativizer(c3, dataset)

\* Line 464-468: the clause span of the candidate.
ExtractSpan(c, text, subtrees, seed) ==
    LET rc == IF c.relativizer # "zero"
              THEN relative_clause(subtrees, c.clause_verb, c.relativizer,
                                   text, seed)
              ELSE zero_relative_clause(subtrees, c.clause_verb, text,
                                        c.index_of_head_noun, seed)
    IN  IF rc = "" THEN Return(c, "no_span")
        ELSE [c EXCEPT !.relative_clause = rc, !.rc_words = Split(rc)]

\* The call after it ran the filters `names`.
Ran(c, names) == [c EXCEPT !.evaluated = @ \o names]

\* The chain whose complement filter never rejects.
FiltersWithoutComplement(c) ==
    IF _looks_like_manner_clause(c.head_noun_lower, c.relativizer, c.rc_words)
    THEN Return(Ran(c, <<"manner">>), "manner")
    ELSE IF _is_pp_fronted_without_gap(c.head_noun_lower, c.relativizer_role,
                                       c.preposition_before_relativizer,
                                       c.rc_words)
    THEN Return(Ran(c, <<"manner", "complement", "pp_fronted">>), "pp_fronted")
    ELSE IF _is_aux_fragment(c.relativizer, c.rc_words)
    THEN Return(Ran(c, <<"manner", "complement", "pp_fronted",
                         "aux_fragment">>), "aux_fragment")
    ELSE Ran(c, <<"manner", "complement", "pp_fronted", "aux_fragment">>)

\* The four filters all run before the first verdict is looked at.
FiltersEager(c) ==
    LET all == Ran(c, <<"manner", "complement", "pp_fronted", "aux_fragment">>)
    IN  IF _looks_like_manner_clause(c.head_noun_lower, c.relativizer,
                                     c.rc_words)
        THEN Return(all, "manner")
        ELSE IF _is_complement_clause(c.head_noun_lower,
                                      c.head_noun_in_main_clause,
                                      c.relativizer_role, c.relativizer)
        THEN Return(all, "complement")
        ELSE IF _is_pp_fronted_without_gap(c.head_noun_lower,
                                           c.relativizer_role,
                                           c.preposition_before_relativizer,
                                           c.rc_words)
        THEN Return(all, "pp_fronted")
        ELSE IF _is_aux_fragment(c.relativizer, c.rc_words)
        THEN Return(all, "aux_fragment")
        ELSE all

\* Lines 469-476: the four filters, in the order of the code.
Filters(c) ==
    IF _looks_like_manner_clause(c.head_noun_lower, c.relativizer, c.rc_words)
    THEN Return(Ran(c, <<"manner">>), "manner")
    ELSE IF _is_complement_clause(c.head_noun_lower,
                                  c.head_noun_in_main_clause,
                                  c.relativizer_role, c.relativizer)
    THEN Return(Ran(c, <<"manner", "complement">>), "complement")
    ELSE IF _is_pp_fronted_without_gap(c.head_noun_lower, c.relativizer_role,
                                       c.preposition_before_relativizer,
                                       c.rc_words)
    THEN Return(Ran(c, <<"manner", "complement", "pp_fronted">>),
                "pp_fronted")
    ELSE IF _is_aux_fragment(c.relativizer, c.rc_words)
    THEN Return(Ran(c, <<"manner", "complement", "pp_fronted",
                         "aux_fragment">>), "aux_fragment")
    ELSE Ran(c, <<"manner", "complement", "pp_fronted", "aux_fragment">>)

\* Lines 535-540: the loop looking for a dobj/iobj of the clause verb from the
\* verb's own position to the end of text.  Visit(j) is what the loop reads at
\* j: "raise" when arcs or rels has no index j, "hit" at an object of the verb.
ObjectVisit(dataset, v, j) ==
    IF ~InRange(dataset.arcs, j) THEN "raise"
    ELSE IF PyGet(dataset.arcs, j) - 1 # v THEN "next"
    ELSE IF ~InRange(dataset.rels, j) THEN "raise"
    ELSE IF PyGet(dataset.rels, j) \in {"dobj", "iobj"} THEN "hit"
    ELSE "next"

\* The loop started at the first token instead of the clause verb.
ObjectLoopFromStart(text, dataset, v) ==
    LET js == {j \in 0..(Len(text) - 1) : ObjectVisit(dataset, v, j) # "next"}
    IN  IF js = {} THEN "next"
        ELSE ObjectVisit(dataset, v, CHOOSE j \in js : \A k \in js : j <= k)

\* How the loop ends: at the first j that is not "next", or "next" after the
\* last one.
ObjectLoop(text, dataset, v) ==
    LET js == {j \in v..(Len(text) - 1) : ObjectVisit(dataset, v, j) # "next"}
    IN  IF js = {} THEN "next"
        ELSE ObjectVisit(dataset, v, CHOOSE j \in js : \A k \in js : j <= k)

\* Factor 1 (lines 500-508).
DistanceScore(filler_gap_distance) ==
    IF filler_gap_distance <= 3 THEN 3
    ELSE IF filler_gap_distance <= 5 THEN 2
    ELSE IF filler_gap_distance <= 7 THEN 1
    ELSE IF filler_gap_distance > 10 THEN 0 - 3
    ELSE 0

\* Factor 2 (lines 512-515).
HeadNounScore(head_noun_lower) ==
    IF head_noun_lower \in rc_attracting_nouns THEN 2
    ELSE IF head_noun_lower \in complement_attracting_nouns THEN 0 - 2
    ELSE 0

\* Factor 3 (lines 518-525).
PronounScore(head_noun_lower, rc_words) ==
    IF Len(rc_words) > 0 /\ Lower(rc_words[1]) \in {"i", "you", "we"}
    THEN IF Len(rc_words) = 4
         THEN (IF head_noun_lower \notin rc_attracting_nouns THEN 0 - 1 ELSE 0)
         ELSE IF Len(rc_words) >= 6 THEN 1 ELSE 0
    ELSE 0

\* Factor 4 (lines 528-531).
LengthScore(rc_words) ==
    IF Len(rc_words) >= 8 THEN 2 ELSE IF Len(rc_words) >= 6 THEN 1 ELSE 0

\* The bonus given to a clause with an object instead of one without.
ObjectGapScoreInverted(has_object) == IF has_object THEN 2 ELSE 0

\* Factor 5 (lines 542-544).
ObjectGapScore(has_object) == IF has_object THEN 0 ELSE 2

\* Lines 479-549: the confidence gate of a zero relative.
Gate(c, text, dataset) ==
    IF c.relativizer # "zero" THEN c
    ELSE IF Len(c.rc_words) < 4 THEN Return(Ran(c, <<"gate">>), "too_short")
    ELSE IF IsSubstr(EmDash, c.relative_clause)
            \/ CountChar(c.relative_clause, ",") >= 3
    THEN Return(Ran(c, <<"gate">>), "parenthetical")
    ELSE IF /\ Len(c.rc_words) >= 2
            /\ c.rc_words[2] \in contraction_fragments
            /\ Len(c.rc_words) <= 4
    THEN Return(Ran(c, <<"gate">>), "contraction")
    ELSE
    LET loop == ObjectLoop(text, dataset, c.index_of_word)
        has_object == loop = "hit"
        confidence_score ==
            DistanceScore(c.index_of_word - c.index_of_head_noun)
            + HeadNounScore(c.head_noun_lower)
            + PronounScore(c.head_noun_lower, c.rc_words)
            + LengthScore(c.rc_words)
            + ObjectGapScore(has_object)
        scored == [c EXCEPT !.gated = TRUE, !.has_object = has_object,
                            !.confidence_score = confidence_score,
                            !.evaluated = @ \o <<"gate">>]
    IN  IF loop = "raise" THEN Return(Ran(c, <<"gate">>), "exception")
        ELSE IF confidence_score < 0 - 1 THEN Return(scored, "low_confidence")
        ELSE scored

SubjectRoles == {"nsubj", "nsubjpass"}

NonVerbalRoles == {"poss", "nmod", "compound"}

\* rc_type and structure_pattern as a pair.
Typed(rc_type, structure_pattern) ==
    [rc_type |-> rc_type, structure_pattern |-> structure_pattern]

\* Lines 588-617: the else branch of the explicit cascade.
ExplicitFallback(c, dataset) ==
    LET r == c.index_of_relativizer
        v == c.index_of_word
        h == c.index_of_head_noun
        role == c.relativizer_role
        intervening_subject ==
            \E j \in (r + 1)..(v - 1) :
                /\ PyGet(dataset.rels, j) \in SubjectRoles
                /\ PyGet(dataset.words, j) \notin relativizer_list
    IN  IF intervening_subject THEN Typed("ORC", "NP + Comp + NP2 + Verb")
        ELSE IF PyGet(dataset.arcs, r) - 1 = v
        THEN Typed("SRC", "NP + Comp + Verb + NP2")
        ELSE IF \E j \in h..(v - 1) : PyGet(dataset.rels, j) \in NonVerbalRoles
        THEN Typed("Other", "NP + Comp + NP2")
        ELSE IF role \in SubjectRoles THEN Typed("SRC", "")
        ELSE IF role \in {"dobj", "iobj", "pobj"} THEN Typed("ORC", "")
        ELSE Typed("Other", "NP + Comp + NP2")

\* The relativizer is the subject of the clause, passive or not.
SubjectRuleActiveOnly(role, relativizer, rel_at) ==
    \/ role = "nsubj"
    \/ relativizer \in {"who", "that"} /\ rel_at = "nsubj"

\* Lines 568-569: the condition of the SRC rule.
SubjectRule(role, relativizer, rel_at) ==
    \/ role \in SubjectRoles
    \/ relativizer \in {"who", "that"} /\ rel_at \in SubjectRoles

\* The object rule without the clause marker.
ObjectRuleNoMark(role, relativizer, rel_at) ==
    \/ role \in {"dobj", "iobj", "pobj"}
    \/ /\ relativizer \in {"whom", "which", "that"}
       /\ rel_at \in {"dobj", "iobj", "pobj"}

\* Lines 574-575: the condition of the ORC rule.
ObjectRule(role, relativizer, rel_at) ==
    \/ role \in {"dobj", "iobj", "pobj", "mark"}
    \/ /\ relativizer \in {"whom", "which", "that"}
       /\ rel_at \in {"dobj", "iobj", "pobj"}

\* The fronted-PP rule tried after the ORC rule: a pobj relativizer has
\* matched that rule before and never gets here.
FrontedPPRuleAfterObjectRule(has_preposition_before_relativizer, role) ==
    /\ has_preposition_before_relativizer
    /\ role \in {"pobj"} \ {"dobj", "iobj", "pobj", "mark"}

\* Line 562: the condition of the fronted-PP rule.
FrontedPPRule(has_preposition_before_relativizer, role) ==
    has_preposition_before_relativizer /\ role \in {"pobj"}

\* Lines 556-617: the cascade of an explicit relativizer, first match wins.
ClassifyExplicit(c, dataset) ==
    LET role == c.relativizer_role
        relativizer == c.relativizer
        rel_at == PyGet(dataset.rels, c.index_of_relativizer)
    IN  IF role = "nsubjpass" /\ c.passive_like
        THEN Typed("SRC", "NP + Comp + Verb + NP2 (passive)")
        ELSE IF FrontedPPRule(c.has_preposition_before_relativizer, role)
        THEN Typed("SRC", "NP + Prep + Comp + Verb (passive)")
        ELSE IF SubjectRule(role, relativizer, rel_at)
        THEN Typed("SRC", "NP + Comp + Verb + NP2")
        ELSE IF ObjectRule(role, relativizer, rel_at)
        THEN Typed("ORC", "NP + Comp + NP2 + Verb")
        ELSE IF \/ role \in NonVerbalRoles
                \/ c.head_noun_in_main_clause \in NonVerbalRoles
                \/ /\ relativizer \in {"whose", "which", "where", "when", "why"}
                   /\ rel_at \notin {"nsubj", "nsubjpass", "dobj", "iobj",
                                     "pobj"}
        THEN Typed("Other", "NP + Comp + NP2")
        ELSE ExplicitFallback(c, dataset)

\* Lines 618-653: the cascade of a zero relative.
ClassifyZero(c, dataset) ==
    LET v == c.index_of_word
        h == c.index_of_head_noun
        has_intervening_subject ==
            \E j \in (h + 1)..(v - 1) :
                /\ PyGet(dataset.rels, j) \in SubjectRoles
                /\ PyGet(dataset.arcs, j) - 1 = v
        has_subject ==
            \E j \in h..(v - 1) : PyGet(dataset.rels, j) \in SubjectRoles
        has_object ==
            \E j \in h..(v - 1) :
                PyGet(dataset.rels, j) \in {"dobj", "iobj", "pobj"}
        has_non_verbal ==
            \E j \in h..(v - 1) : PyGet(dataset.rels, j) \in NonVerbalRoles
        rc_type ==
            IF has_intervening_subject THEN "ORC"
            ELSE IF has_non_verbal /\ ~(has_subject \/ has_object) THEN "Other"
            ELSE IF has_subject /\ ~has_object THEN "SRC"
            ELSE IF has_object /\ ~has_subject THEN "ORC"
            ELSE IF c.head_noun_in_main_clause \in NonVerbalRoles THEN "Other"
            ELSE "SRC"
    IN  Typed(rc_type, "zero relative")

\* Lines 551-678: classification, filler gap, and the record returned.
Classify(c, dataset) ==
    LET p == [c EXCEPT !.passive_like = _looks_passive_clause(c.rc_words),
                       !.evaluated = @ \o <<"classifier">>]
        t == IF p.relativizer # "zero" THEN ClassifyExplicit(p, dataset)
             ELSE ClassifyZero(p, dataset)
        filler_gap == IF p.relativizer # "zero"
                      THEN p.index_of_word - p.index_of_relativizer
                      ELSE p.index_of_word - p.index_of_head_noun
    IN  [p EXCEPT
            !.ok = TRUE,
            !.filler_gap_dependency = filler_gap,
            !.restrictiveness = "restrictive",
            !.head_noun_in_rc =
                IF p.relativizer_role \in {None, ""} THEN "zero"
                ELSE p.relativizer_role,
            !.relative_clause_length = SplitOnSpaceLen(p.relative_clause),
            !.rc_type = t.rc_type,
            !.structure_pattern = t.structure_pattern]

\* The value of a local assigned once: the element of a one-element set.
Only(S) == CHOOSE r \in S : TRUE

\* process_relative_clause(text, dataset, index_of_word, subtrees, i) in a
\* process whose hash seed is `seed`: the stages in the order of the code, a
\* stage skipped once a return was taken (`why` is set).
process_relative_clause(text, dataset, index_of_word, subtrees, seed) ==
    Only({IF c4.why # "" THEN c4 ELSE Classify(c4, dataset) :
        c4 \in {IF c3.why # "" THEN c3 ELSE Gate(c3, text, dataset) :
        c3 \in {IF c2.why # "" THEN c2 ELSE Filters(c2) :
        c2 \in {IF c1.why # "" THEN c1
                ELSE ExtractSpan(c1, text, subtrees, seed) :
        c1 \in {Resolve(text, dataset, index_of_word)}}}}})

(***************************************************************************)
(* The parser boundary and the corpus                                      *)
(*                                                                         *)
(* What self.parsing returns for a sentence: failed (the three Nones), or  *)
(* the tokens `text`, the dependency arrays of `dataset` and the trees of  *)
(* `dataset2`.  A tree is the sequence of its subtrees, each a label and   *)
(* the slice lo:hi of the leaves it spans (the leaves are the tokens).     *)
(***************************************************************************)

Node(label, lo, hi) == [label |-> label, lo |-> lo, hi |-> hi]

Parsed(text, tags, rels, arcs, tree) ==
    [failed |-> FALSE, text |-> text, words |-> text, tags |-> tags,
     rels |-> rels, arcs |-> arcs, trees |-> <<tree>>]

\* (None, None, None)
ParseFailure ==
    [failed |-> TRUE, text |-> <<>>, words |-> <<>>, tags |-> <<>>,
     rels |-> <<>>, arcs |-> <<>>, trees |-> <<>>]

\* The sentences of the corpus with the parse expected of each.
BookSentence ==
    Parsed(<<"The", "book", "that", "I", "read", "was", "good">>,
           <<"DT", "NN", "WDT", "PRP", "VBD", "VBD", "JJ">>,
           <<"det", "nsubj", "dobj", "nsubj", "rcmod", "cop", "root">>,
           <<2, 7, 5, 5, 2, 7, 0>>,
           <<Node("S", 0, 7), Node("NP", 0, 5), Node("SBAR", 2, 5),
             Node("VP", 5, 7)>>)

ManSentence ==
    Parsed(<<"The", "man", "who", "left", "was", "tall">>,
           <<"DT", "NN", "WP", "VBD", "VBD", "JJ">>,
           <<"det", "nsubj", "nsubj", "rcmod", "cop", "root">>,
           <<2, 6, 4, 2, 6, 0>>,
           <<Node("S", 0, 6), Node("NP", 0, 4), Node("SBAR", 2, 4),
             Node("VP", 4, 6)>>)

WayThatSentence ==
    Parsed(<<"I", "like", "the", "way", "that", "things", "turned", "out">>,
           <<"PRP", "VBP", "DT", "NN", "IN", "NNS", "VBD", "RP">>,
           <<"nsubj", "root", "det", "dobj", "mark", "nsubj", "rcmod", "prt">>,
           <<2, 0, 4, 2, 7, 7, 4, 7>>,
           <<Node("S", 0, 8), Node("NP", 2, 8), Node("SBAR", 4, 8),
             Node("S", 5, 8)>>)

WayZeroSentence ==
    Parsed(<<"I", "like", "the", "way", "things", "turned", "out", "today">>,
           <<"PRP", "VBP", "DT", "NN", "NNS", "VBD", "RP", "NN">>,
           <<"nsubj", "root", "det", "dobj", "nsubj", "rcmod", "prt", "tmod">>,
           <<2, 0, 4, 2, 6, 4, 6, 6>>,
           <<Node("S", 0, 8), Node("NP", 2, 8), Node("SBAR", 4, 8),
             Node("VP", 5, 8)>>)

ThingSentence ==
    Parsed(<<"the", "thing", "we", "saw", "near", "the", "house", "broke">>,
           <<"DT", "NN", "PRP", "VBD", "IN", "DT", "NN", "VBD">>,
           <<"det", "nsubj", "nsubj", "rcmod", "prep", "det", "pobj", "root">>,
           <<2, 8, 4, 2, 4, 7, 5, 0>>,
           <<Node("S", 0, 8), Node("NP", 0, 7), Node("SBAR", 2, 7),
             Node("VP", 3, 7)>>)

\* The same clause after the same head noun in another sentence.
ThingSentence2 ==
    Parsed(<<"the", "thing", "we", "saw", "near", "the", "house", "fell">>,
           <<"DT", "NN", "PRP", "VBD", "IN", "DT", "NN", "VBD">>,
           <<"det", "nsubj", "nsubj", "rcmod", "prep", "det", "pobj", "root">>,
           <<2, 8, 4, 2, 4, 7, 5, 0>>,
           <<Node("S", 0, 8), Node("NP", 0, 7), Node("SBAR", 2, 7),
             Node("VP", 3, 7)>>)

\* Two SBAR spans of 14 characters each hold "went" and "that".
WaySoThatSentence ==
    Parsed(<<"the", "way", "that", "they", "went", "so", "that", "I", "went">>,
           <<"DT", "NN", "IN", "PRP", "VBD", "IN", "IN", "PRP", "VBD">>,
           <<"det", "nsubj", "mark", "nsubj", "rcmod", "mark", "mark", "nsubj",
             "advcl">>,
           <<2, 0, 5, 5, 2, 9, 9, 9, 5>>,
           <<Node("NP", 0, 9), Node("SBAR", 2, 5), Node("SBAR", 5, 9)>>)

WhomSentence ==
    Parsed(<<"the", "man", "to", "whom", "I", "spoke", "left">>,
           <<"DT", "NN", "TO", "WP", "PRP", "VBD", "VBD">>,
           <<"det", "nsubj", "prep", "pobj", "nsubj", "rcmod", "root">>,
           <<2, 7, 6, 3, 6, 2, 0>>,
           <<Node("S", 0, 7), Node("NP", 0, 6), Node("SBAR", 2, 6),
             Node("S", 4, 6)>>)

\* More sentences, each with the parse expected of it.
IdeaSentence ==
    Parsed(<<"I", "like", "the", "idea", "that", "we", "met">>,
           <<"PRP", "VBP", "DT", "NN", "IN", "PRP", "VBD">>,
           <<"nsubj", "root", "det", "dobj", "mark", "nsubj", "rcmod">>,
           <<2, 0, 4, 2, 7, 7, 4>>,
           <<Node("S", 0, 7), Node("NP", 2, 7), Node("SBAR", 4, 7),
             Node("S", 5, 7)>>)

QuestionSentence ==
    Parsed(<<"the", "question", "to", "which", "we", "turned", "fell">>,
           <<"DT", "NN", "TO", "WDT", "PRP", "VBD", "VBD">>,
           <<"det", "nsubj", "prep", "pobj", "nsubj", "rcmod", "root">>,
           <<2, 7, 6, 3, 6, 2, 0>>,
           <<Node("S", 0, 7), Node("NP", 0, 6), Node("SBAR", 2, 6),
             Node("S", 4, 6)>>)

ShouldSentence ==
    Parsed(<<"the", "thing", "we", "should", "have", "fell">>,
           <<"DT", "NN", "PRP", "MD", "VB", "VBD">>,
           <<"det", "nsubj", "nsubj", "aux", "rcmod", "root">>,
           <<2, 6, 5, 5, 2, 0>>,
           <<Node("S", 0, 6), Node("NP", 0, 5), Node("SBAR", 2, 5),
             Node("VP", 3, 5)>>)

\* The clause attached to "claim", six tokens before its verb.
ClaimSentence ==
    Parsed(<<"the", "claim", "about", "the", "old", "man", "we", "gave", "it",
             "today", "broke">>,
           <<"DT", "NN", "IN", "DT", "JJ", "NN", "PRP", "VBD", "PRP", "NN",
             "VBD">>,
           <<"det", "nsubj", "prep", "det", "amod", "pobj", "nsubj", "rcmod",
             "dobj", "tmod", "root">>,
           <<2, 11, 2, 6, 6, 3, 8, 2, 8, 8, 0>>,
           <<Node("S", 0, 11), Node("NP", 0, 10), Node("PP", 2, 6),
             Node("SBAR", 6, 10), Node("VP", 7, 10)>>)

\* A zero relative whose head noun is the object of the main clause.
LikeThingSentence ==
    Parsed(<<"I", "like", "the", "thing", "we", "saw", "near", "the", "house">>,
           <<"PRP", "VBP", "DT", "NN", "PRP", "VBD", "IN", "DT", "NN">>,
           <<"nsubj", "root", "det", "dobj", "nsubj", "rcmod", "prep", "det",
             "pobj">>,
           <<2, 0, 4, 2, 6, 4, 6, 9, 7>>,
           <<Node("S", 0, 9), Node("NP", 2, 9), Node("SBAR", 4, 9),
             Node("VP", 5, 9)>>)

PlaceSentence ==
    Parsed(<<"the", "place", "where", "we", "met", "was", "nice">>,
           <<"DT", "NN", "WRB", "PRP", "VBD", "VBD", "JJ">>,
           <<"det", "nsubj", "advmod", "nsubj", "rcmod", "cop", "root">>,
           <<2, 7, 5, 5, 2, 7, 0>>,
           <<Node("S", 0, 7), Node("NP", 0, 5), Node("SBAR", 2, 5),
             Node("VP", 5, 7)>>)

WhatSentence ==
    Parsed(<<"the", "thing", "what", "we", "saw", "fell">>,
           <<"DT", "NN", "WP", "PRP", "VBD", "VBD">>,
           <<"det", "nsubj", "dobj", "nsubj", "rcmod", "root">>,
           <<2, 6, 5, 5, 2, 0>>,
           <<Node("S", 0, 6), Node("NP", 0, 5), Node("SBAR", 2, 5),
             Node("S", 3, 5)>>)

WhateverSentence ==
    Parsed(<<"the", "thing", "whatever", "we", "saw", "fell">>,
           <<"DT", "NN", "WP", "PRP", "VBD", "VBD">>,
           <<"det", "nsubj", "dobj", "nsubj", "rcmod", "root">>,
           <<2, 6, 5, 5, 2, 0>>,
           <<Node("S", 0, 6), Node("NP", 0, 5), Node("SBAR", 2, 5),
             Node("S", 3, 5)>>)

\* Two rcmod tokens in one sentence: "left" and "saw".
TwoClauseSentence ==
    Parsed(<<"the", "man", "who", "left", "made", "the", "thing", "we", "saw",
             "near", "the", "house">>,
           <<"DT", "NN", "WP", "VBD", "VBD", "DT", "NN", "PRP", "VBD", "IN",
             "DT", "NN">>,
           <<"det", "nsubj", "nsubj", "rcmod", "root", "det", "dobj", "nsubj",
             "rcmod", "prep", "det", "pobj">>,
           <<2, 5, 4, 2, 0, 7, 5, 9, 7, 9, 12, 10>>,
           <<Node("S", 0, 12), Node("NP", 0, 4), Node("SBAR", 2, 4),
             Node("NP", 5, 12), Node("SBAR", 7, 12)>>)

\* A preposition before the relativizer that only its tag tells.
NearWhomSentence ==
    Parsed(<<"the", "man", "near", "whom", "I", "spoke", "left">>,
           <<"DT", "NN", "IN", "WP", "PRP", "VBD", "VBD">>,
           <<"det", "nsubj", "prep", "pobj", "nsubj", "rcmod", "root">>,
           <<2, 7, 6, 3, 6, 2, 0>>,
           <<Node("S", 0, 7), Node("NP", 0, 6), Node("SBAR", 2, 6),
             Node("S", 4, 6)>>)

\* Two SBAR spans hold "saw" and "that": one of three tokens and 17
\* characters, one of five tokens and 16 characters.
SawSoThatSentence ==
    Parsed(<<"the", "thing", "that", "everyone", "saw", "so", "that", "I",
             "saw", "it">>,
           <<"DT", "NN", "WDT", "NN", "VBD", "IN", "IN", "PRP", "VBD", "PRP">>,
           <<"det", "nsubj", "dobj", "nsubj", "rcmod", "mark", "mark", "nsubj",
             "advcl", "dobj">>,
           <<2, 0, 5, 5, 2, 9, 9, 9, 5, 9>>,
           <<Node("NP", 0, 10), Node("SBAR", 2, 5), Node("SBAR", 5, 10)>>)

\* The head noun is the first token and is itself a word of relativizer_list.
ThatWhichSentence ==
    Parsed(<<"that", "which", "we", "saw", "there", "fell">>,
           <<"DT", "WDT", "PRP", "VBD", "RB", "VBD">>,
           <<"nsubj", "dobj", "nsubj", "rcmod", "advmod", "root">>,
           <<6, 4, 4, 1, 4, 0>>,
           <<Node("S", 0, 6), Node("NP", 0, 5), Node("SBAR", 1, 5),
             Node("S", 2, 5)>>)

\* The relativizer is the subject of a passive clause.
FiredSentence ==
    Parsed(<<"the", "man", "who", "was", "fired", "left">>,
           <<"DT", "NN", "WP", "VBD", "VBN", "VBD">>,
           <<"det", "nsubj", "nsubjpass", "auxpass", "rcmod", "root">>,
           <<2, 6, 5, 5, 2, 0>>,
           <<Node("S", 0, 6), Node("NP", 0, 5), Node("SBAR", 2, 5),
             Node("VP", 3, 5)>>)

\* A zero relative far from a head noun that attracts complements, its
\* clause of four words opening with a pronoun.
FarClaimSentence ==
    Parsed(<<"the", "claim", "about", "the", "old", "house", "in", "the",
             "town", "we", "saw", "there", "today", "fell">>,
           <<"DT", "NN", "IN", "DT", "JJ", "NN", "IN", "DT", "NN", "PRP",
             "VBD", "RB", "NN", "VBD">>,
           <<"det", "nsubj", "prep", "det", "amod", "pobj", "prep", "det",
             "pobj", "nsubj", "rcmod", "advmod", "tmod", "root">>,
           <<2, 14, 2, 6, 6, 3, 6, 9, 7, 11, 2, 11, 11, 0>>,
           <<Node("S", 0, 14), Node("NP", 0, 13), Node("SBAR", 9, 13),
             Node("VP", 10, 13)>>)

More ==
    <<IdeaSentence, QuestionSentence, ShouldSentence, ClaimSentence,
      LikeThingSentence, PlaceSentence, WhatSentence, WhateverSentence,
      TwoClauseSentence, NearWhomSentence, SawSoThatSentence,
      ThatWhichSentence, FiredSentence, FarClaimSentence>>

Gold ==
    <<BookSentence, ManSentence, WayThatSentence, WayZeroSentence,
      ThingSentence, WaySoThatSentence, WhomSentence>>

\* The relation labels the parser may give a token.
ParserRelations ==
    {"nsubj", "nsubjpass", "dobj", "iobj", "pobj", "mark", "poss", "advmod",
     "rcmod", "det"}

\* The parser's output with the relation and the head of token j (1-based
\* here) replaced.
Reattach(p, j, rel, arc) ==
    [p EXCEPT !.rels[j] = rel, !.arcs[j] = arc]

\* The parser's output with the tag of token j replaced.
Retag(p, j, tag) == [p EXCEPT !.tags[j] = tag]

\* The parser's output with subtree k of its tree relabelled.
Relabel(p, k, label) == [p EXCEPT !.trees[1][k].label = label]

\* What the parsers may return for a sentence whose expected parse is p: p, or
\* p with one token's relation and head arbitrary, or one token's tag, or one
\* subtree's label; or a failure.
ParserOutputs(p) ==
    {p, ParseFailure}
    \cup {Reattach(p, j, rel, arc) :
            j \in 1..Len(p.text), rel \in ParserRelations,
            arc \in 0..Len(p.text)}
    \cup {Retag(p, j, tag) : j \in 1..Len(p.text), tag \in {"IN", "NN"}}
    \cup {Relabel(p, k, label) :
            k \in 1..Len(p.trees[1]), label \in {"SBAR", "S"}}

\* The parser's output with the tags, or the heads, of the first n tokens
\* only: arrays that are not aligned with the tokens.
TruncateTags(p, n) == [p EXCEPT !.tags = SubSeq(p.tags, 1, n)]

TruncateArcs(p, n) == [p EXCEPT !.arcs = SubSeq(p.arcs, 1, n)]

\* The constituency parser's output with a second tree (a forest).
Forest(p) == [p EXCEPT !.trees = p.trees \o p.trees]

\* Outputs that make the handling of the sentence raise.
Malformed(p) ==
    {TruncateTags(p, n) : n \in 0..(Len(p.text) - 1)}
    \cup {TruncateArcs(p, n) : n \in 0..(Len(p.text) - 1)}
    \cup {Forest(p)}

\* The input files: the sentences of each, by name.  "X" is the sentence whose
\* parse varies; the others get the parse expected.
input_files == << <<"X", "A">>, <<"B">> >>

SentenceNames == {"X", "A", "B"}

\* acquire_subtrees: the leaves of every SBAR subtree, space-joined, in the
\* order of the traversal.
acquire_subtrees(text, parse_tree) ==
    LET sbar == SelectSeq(parse_tree, LAMBDA n : n.label = "SBAR")
    IN  [k \in 1..Len(sbar) |-> JoinSp(PySlice(text, sbar[k].lo, sbar[k].hi))]

(***************************************************************************)
(* extract_relative_clauses: the state machine                             *)
(***************************************************************************)

\* How many times the program is run on the same input and output folders.
MaxRuns == 2

VARIABLES
    parser,                 \* what self.parsing returns for each sentence
    pc,                     \* where the running process is ("idle": none runs)
    run,                    \* the runs started so far
    hash_seed,              \* the str hash seed of the running process
    file_index,             \* the file of input_files being read (from 1)
    sent_index,             \* the sentence of that file to process (from 1)
    relativizer_dict_list,  \* the rows accepted so far in this run
    csv,                    \* results_cursor.csv: whether it exists, its lines
    outcomes,               \* every call of process_relative_clause of this run
    prev_outcomes,          \* those of the run before
    passive_call,           \* a call of _looks_passive_clause on its own
    writers,                \* two runs at the write of the table, side by side
    tidy_call,              \* tidy.py's punctuation pass on one word
    download                \* a run of download_models.main

vars ==
    <<parser, pc, run, hash_seed, file_index, sent_index,
      relativizer_dict_list, csv, outcomes, prev_outcomes, passive_call,
      writers, tidy_call, download>>

\* The variables the runs of the program, one after the other, leave alone.
apart == <<passive_call, writers, tidy_call, download>>

\* The variables of the other scripts of the repository.
scripts == <<tidy_call, download>>

\* No call of _looks_passive_clause on its own.
NoPassiveCall == [rc_words |-> <<>>, returned |-> FALSE, result |-> FALSE]

\* The names of two runs started side by side.
Writers == {"first", "second"}

\* No such runs.
NoWriters ==
    [w \in Writers |-> [pc |-> "none", file_exists |-> FALSE, rows |-> <<>>]]

\* No word given to the punctuation pass.
NoTidyCall == [word |-> "", returned |-> FALSE, result |-> ""]

\* The models of download_models.main, in the order of the dict.
Models == {1, 2}

\* download_models.main not started: nothing on disk.
NoDownload ==
    [pc |-> "none", model |-> 1, url |-> 1, success_count |-> 0,
     announced |-> FALSE,
     archive |-> [m \in Models |-> "absent"],
     extracted |-> [m \in Models |-> FALSE],
     tried |-> [m \in Models |-> <<>>],
     unzipped |-> [m \in Models |-> "not_called"]]

\* The column names set at lines 752-755: the header line of the table.
Header ==
    <<"head_noun", "head_noun_in_main_clause", "clause_verb",
      "filler_gap_dependency", "restrictiveness", "relativizer",
      "head_noun_in_rc", "relative_clause", "relative_clause_length",
      "rc_type", "structure_pattern", "file", "sent", "sentence_word_count",
      "sentence_verb_count">>

FileName(f) == "input_texts/" \o ToString(f) \o ".txt"

\* count_verbs_in_text: the tokens nltk tags VB*.
count_verbs_in_text(text) ==
    Len(SelectSeq(text, LAMBDA w : w \in nltk_verbs))

\* The row of an accepted candidate (lines 664-676 and 725-730), as to_csv
\* writes it: every cell as text.
Row(c, f, text) ==
    <<c.head_noun, c.head_noun_in_main_clause, c.clause_verb,
      ToString(c.filler_gap_dependency), c.restrictiveness, c.relativizer,
      c.head_noun_in_rc, c.relative_clause,
      ToString(c.relative_clause_length), c.rc_type, c.structure_pattern,
      FileName(f), JoinSp(text), ToString(Len(text)),
      ToString(count_verbs_in_text(text))>>

\* The positions (0-based) of the rcmod tokens, in the order of enumerate.
RcmodIndices(rels) ==
    SelectSeq([k \in 1..Len(rels) |-> k - 1],
              LAMBDA k : rels[k + 1] = "rcmod")

\* The sentence given up at the first call that raised.
SentenceOutcomesUntilException(out, seed) ==
    IF out.failed \/ Len(out.trees) = 0 THEN <<>>
    ELSE LET subtrees == acquire_subtrees(out.text, out.trees[1])
             idx == RcmodIndices(out.rels)
             results == [k \in 1..Len(idx) |->
                process_relative_clause(out.text, out, idx[k], subtrees, seed)]
             raised == {k \in 1..Len(idx) : results[k].why = "exception"}
         IN  IF raised = {} THEN results
             ELSE SubSeq(results, 1,
                         CHOOSE k \in raised : \A j \in raised : k <= j)

\* Lines 714-733 for one sentence: the outcome of each call of
\* process_relative_clause, in order.  Only the first tree is read: the del of
\* line 736 makes a second iteration raise.
SentenceOutcomes(out, seed) ==
    IF out.failed \/ Len(out.trees) = 0 THEN <<>>
    ELSE LET subtrees == acquire_subtrees(out.text, out.trees[1])
             idx == RcmodIndices(out.rels)
         IN  [k \in 1..Len(idx) |->
                process_relative_clause(out.text, out, idx[k], subtrees, seed)]

TypeOK ==
    /\ pc \in {"idle", "open", "sentences"}
    /\ run \in 0..MaxRuns
    /\ hash_seed \in 0..(NumHashSeeds - 1)
    /\ csv.exists \in BOOLEAN

\* What the parsers return for the sentences when "X" gets the output x.
Corpus(x) ==
    [n \in SentenceNames |->
        IF n = "X" THEN x
        ELSE IF n = "A" THEN BookSentence
        ELSE ThingSentence2]

\* The outputs "X" may get in the runs of the program.
RunInputs ==
    UNION {ParserOutputs(Gold[g]) : g \in 1..Len(Gold)}
    \cup {TwoClauseSentence} \cup Malformed(TwoClauseSentence)

Init ==
    /\ \E x \in RunInputs : parser = Corpus(x)
    /\ pc = "idle"
    /\ run = 0
    /\ hash_seed = 0
    /\ file_index = 1
    /\ sent_index = 1
    /\ relativizer_dict_list = <<>>
    /\ csv = [exists |-> FALSE, lines |-> <<>>]
    /\ outcomes = <<>>
    /\ prev_outcomes = <<>>
    /\ passive_call = NoPassiveCall
    /\ writers = NoWriters
    /\ tidy_call = NoTidyCall
    /\ download = NoDownload

\* python main.py: a new process, with a hash seed of its own.
StartRun ==
    /\ pc = "idle"
    /\ run < MaxRuns
    /\ run' = run + 1
    /\ \E seed \in 0..(NumHashSeeds - 1) : hash_seed' = seed
    /\ pc' = "open"
    /\ file_index' = 1
    /\ sent_index' = 1
    /\ relativizer_dict_list' = <<>>
    /\ prev_outcomes' = outcomes
    /\ outcomes' = <<>>
    /\ UNCHANGED <<apart, parser, csv>>

\* Line 687-697: the next file of self.input_files is opened.
OpenFile ==
    /\ pc = "open"
    /\ file_index <= Len(input_files)
    /\ pc' = "sentences"
    /\ sent_index' = 1
    /\ UNCHANGED <<apart, parser, run, hash_seed, file_index, relativizer_dict_list,
                   csv, outcomes, prev_outcomes>>

\* Lines 707-741: one sentence is parsed and each rcmod token processed.
ProcessSentence ==
    /\ pc = "sentences"
    /\ sent_index <= Len(input_files[file_index])
    /\ LET name == input_files[file_index][sent_index]
           out == parser[name]
           results == SentenceOutcomes(out, hash_seed)
           accepted == SelectSeq(results, LAMBDA c : c.ok)
       IN  /\ relativizer_dict_list' =
                relativizer_dict_list
                \o [k \in 1..Len(accepted) |->
                        Row(accepted[k], file_index, out.text)]
           /\ outcomes' =
                outcomes
                \o [k \in 1..Len(results) |->
                        [sent |-> name, result |-> results[k]]]
    /\ sent_index' = sent_index + 1
    /\ UNCHANGED <<apart, parser, pc, run, hash_seed, file_index, csv, prev_outcomes>>

\* Line 743: the file is done.
CloseFile ==
    /\ pc = "sentences"
    /\ sent_index > Len(input_files[file_index])
    /\ file_index' = file_index + 1
    /\ pc' = "open"
    /\ UNCHANGED <<apart, parser, run, hash_seed, sent_index, relativizer_dict_list,
                   csv, outcomes, prev_outcomes>>

\* header=False on every write: the rows are appended, a new table gets no
\* header line.
to_csv_without_header(table, rows) ==
    [exists |-> TRUE, lines |-> table.lines \o rows]

\* Lines 761-769: df.to_csv in mode 'a' without header on an existing table,
\* with the header on a new one.
to_csv(table, rows) ==
    IF table.exists THEN [table EXCEPT !.lines = table.lines \o rows]
    ELSE [exists |-> TRUE, lines |-> <<Header>> \o rows]

\* Lines 749-776: the rows of the run are appended to an existing table, or
\* written under a header to a new one; no row, no write.  The process ends.
\* The table written whether or not the run has rows.
WriteResultsUnconditional ==
    /\ pc = "open"
    /\ file_index > Len(input_files)
    /\ csv' = to_csv(csv, relativizer_dict_list)
    /\ pc' = "idle"
    /\ hash_seed' = 0
    /\ UNCHANGED <<apart, parser, run, file_index, sent_index, relativizer_dict_list,
                   outcomes, prev_outcomes>>

WriteResults ==
    /\ pc = "open"
    /\ file_index > Len(input_files)
    /\ csv' =
        IF Len(relativizer_dict_list) = 0 THEN csv
        ELSE to_csv(csv, relativizer_dict_list)
    /\ pc' = "idle"
    /\ hash_seed' = 0
    /\ UNCHANGED <<apart, parser, run, file_index, sent_index, relativizer_dict_list,
                   outcomes, prev_outcomes>>

Next == StartRun \/ OpenFile \/ ProcessSentence \/ CloseFile \/ WriteResults

Spec == Init /\ [][Next]_vars

(***************************************************************************)
(* One run at the first sentence of its first file, over more sentences:   *)
(* the calls of process_relative_clause for "X" and then for "A".          *)
(***************************************************************************)

\* The outputs "X" may get there.
SentenceInputs ==
    RunInputs \cup UNION {ParserOutputs(More[g]) : g \in 1..Len(More)}

InitSentence ==
    /\ \E x \in SentenceInputs : parser = Corpus(x)
    /\ pc = "sentences"
    /\ run = 1
    /\ hash_seed \in 0..(NumHashSeeds - 1)
    /\ file_index = 1
    /\ sent_index = 1
    /\ relativizer_dict_list = <<>>
    /\ csv = [exists |-> FALSE, lines |-> <<>>]
    /\ outcomes = <<>>
    /\ prev_outcomes = <<>>
    /\ passive_call = NoPassiveCall
    /\ writers = NoWriters
    /\ tidy_call = NoTidyCall
    /\ download = NoDownload

SpecSentence == InitSentence /\ [][ProcessSentence]_vars

(***************************************************************************)
(* _looks_passive_clause called on its own on a clause: every sequence of  *)
(* at most MaxClauseLen tokens over a vocabulary with a modal, a passive   *)
(* auxiliary, a participle in "ed", an irregular one, another word, and a  *)
(* token that normalizes to nothing.                                       *)
(***************************************************************************)

MaxClauseLen == 5

ClauseVocabulary == {"should", "be", "fired", "seen", "we", ","}

RECURSIVE Clauses(_)
\* The token sequences of length n over the vocabulary.
Clauses(n) ==
    IF n = 0 THEN {<<>>}
    ELSE {Append(ws, w) : ws \in Clauses(n - 1), w \in ClauseVocabulary}

InitPassive ==
    /\ parser = Corpus(BookSentence)
    /\ pc = "idle"
    /\ run = 0
    /\ hash_seed = 0
    /\ file_index = 1
    /\ sent_index = 1
    /\ relativizer_dict_list = <<>>
    /\ csv = [exists |-> FALSE, lines |-> <<>>]
    /\ outcomes = <<>>
    /\ prev_outcomes = <<>>
    /\ \E n \in 0..MaxClauseLen : \E ws \in Clauses(n) :
            passive_call = [rc_words |-> ws, returned |-> FALSE,
                            result |-> FALSE]
    /\ writers = NoWriters
    /\ tidy_call = NoTidyCall
    /\ download = NoDownload

\* Line 554: passive_like = self._looks_passive_clause(rc_words)
LooksPassive ==
    /\ ~passive_call.returned
    /\ passive_call' =
        [passive_call EXCEPT
            !.returned = TRUE,
            !.result = _looks_passive_clause(passive_call.rc_words)]
    /\ UNCHANGED <<parser, pc, run, hash_seed, file_index, sent_index,
                   relativizer_dict_list, csv, outcomes, prev_outcomes,
                   writers, scripts>>

SpecPassive == InitPassive /\ [][LooksPassive]_vars


(***************************************************************************)
(* Properties                                                              *)
(***************************************************************************)

\* The calls of process_relative_clause made so far in this run.
Calls == {outcomes[k] : k \in 1..Len(outcomes)}

\* The number of records among a run's calls.
AcceptedCount(calls) == Len(SelectSeq(calls, LAMBDA o : o.result.ok))

\* Some token strictly between head noun h and clause verb v is a relativizer
\* word.
RelativizerBetween(p, h, v) ==
    \E j \in (h + 1)..(v - 1) : PyGet(p.words, j) \in relativizer_list

\* Some token of the sentence is a dobj or iobj dependent of the token v.
HasObjectDependent(p, v) ==
    \E j \in 0..(Len(p.rels) - 1) :
        /\ InRange(p.arcs, j)
        /\ PyGet(p.arcs, j) - 1 = v
        /\ PyGet(p.rels, j) \in {"dobj", "iobj"}

\* Some token at or after v is a dobj or iobj dependent of the token v.
HasObjectAfterVerb(p, v) ==
    \E j \in v..(Len(p.rels) - 1) :
        /\ InRange(p.arcs, j)
        /\ PyGet(p.arcs, j) - 1 = v
        /\ PyGet(p.rels, j) \in {"dobj", "iobj"}

\* s is a prefix of t.
IsPrefix(s, t) == Len(s) <= Len(t) /\ SubSeq(t, 1, Len(s)) = s

\* The number of header lines in a table.
HeaderLines(lines) == Cardinality({k \in 1..Len(lines) : lines[k] = Header})

\* C1: every record has its head noun, the token arcs[verb] - 1, strictly
\* before the clause verb, whatever the parse is, a parse where the head
\* pointer of the rcmod token designates the token itself included.
C1_HeadBeforeVerb ==
    \A o \in Calls :
        o.result.ok =>
            /\ o.result.index_of_head_noun =
                    PyGet(parser[o.sent].arcs, o.result.index_of_word) - 1
            /\ o.result.index_of_head_noun < o.result.index_of_word

\* A record exists, and a call whose rcmod token is its own head returned
\* none.
C1_Witness ==
    /\ \E o \in Calls : o.result.ok
    /\ \E o \in Calls :
        /\ PyGet(parser[o.sent].arcs, o.result.index_of_word) - 1
                = o.result.index_of_word
        /\ ~o.result.ok

\* C2: for every record, the relativizer is "zero" if and only if no token
\* strictly between the head noun and the clause verb is a relativizer word.
C2_ZeroIffNoneBetween ==
    \A o \in Calls :
        o.result.ok =>
            (o.result.relativizer = "zero"
                <=> ~RelativizerBetween(parser[o.sent],
                                        o.result.index_of_head_noun,
                                        o.result.index_of_word))

\* C3: a record with an explicit relativizer in the role dobj, iobj, pobj or
\* mark, no preposition standing before a pobj relativizer, has rc_type ORC.
C3_ObjectRoleIsORC ==
    \A o \in Calls :
        LET c == o.result
            role == PyGet(parser[o.sent].rels, c.index_of_relativizer)
        IN  (/\ c.ok
             /\ c.relativizer # "zero"
             /\ role \in {"dobj", "iobj", "pobj", "mark"}
             /\ ~(role = "pobj" /\ c.has_preposition_before_relativizer))
            => c.rc_type = "ORC"

\* A record whose explicit relativizer is a clause marker, and one whose
\* explicit relativizer is an object.
C3_Witness ==
    /\ \E o \in Calls :
        /\ o.result.ok /\ o.result.relativizer # "zero"
        /\ PyGet(parser[o.sent].rels, o.result.index_of_relativizer) = "mark"
        /\ o.result.rc_type = "ORC"
    /\ \E o \in Calls :
        /\ o.result.ok /\ o.result.relativizer # "zero"
        /\ PyGet(parser[o.sent].rels, o.result.index_of_relativizer) = "dobj"
        /\ o.result.rc_type = "ORC"

\* C4: a record with an explicit relativizer in the role nsubj or nsubjpass
\* has rc_type SRC, whatever the rest of the sentence is.
C4_SubjectRoleIsSRC ==
    \A o \in Calls :
        LET c == o.result
            role == PyGet(parser[o.sent].rels, c.index_of_relativizer)
        IN  (c.ok /\ c.relativizer # "zero" /\ role \in {"nsubj", "nsubjpass"})
            => c.rc_type = "SRC"

\* A record whose explicit relativizer is a passive subject that no other rule
\* of the cascade would type SRC: it does not depend on the clause verb.
C4_Witness ==
    \E o \in Calls :
        /\ o.result.ok /\ o.result.relativizer # "zero"
        /\ PyGet(parser[o.sent].rels, o.result.index_of_relativizer)
                = "nsubjpass"
        /\ PyGet(parser[o.sent].arcs, o.result.index_of_relativizer) - 1
                # o.result.index_of_word
        /\ o.result.rc_type = "SRC"

C6_StrongZeroAccepted ==
    \A o \in Calls :
        LET c == o.result
        IN  (/\ c.gated
             /\ c.relativizer = "zero"
             /\ c.index_of_word - c.index_of_head_noun <= 3
             /\ Lower(c.head_noun) \in rc_attracting_nouns
             /\ ~HasObjectDependent(parser[o.sent], c.index_of_word))
            => c.confidence_score >= 7 /\ c.ok

\* "the thing we saw near the house": distance 2, head noun "thing", no
\* object of "saw"; scored and accepted.
C6_Witness ==
    \E o \in Calls :
        /\ o.result.gated
        /\ o.result.relativizer = "zero"
        /\ o.result.index_of_word - o.result.index_of_head_noun = 2
        /\ o.result.head_noun = "thing"
        /\ ~HasObjectDependent(parser[o.sent], o.result.index_of_word)
        /\ o.result.confidence_score >= 7
        /\ o.result.ok

\* C7: after two runs on the same corpus and output folder, the table absent
\* before the first and the first with a record, the table holds exactly
\* twice the data rows the first run left.
C7_SecondRunDoubles ==
    (run = 2 /\ pc = "idle" /\ AcceptedCount(prev_outcomes) > 0)
        => /\ csv.exists
           /\ Len(csv.lines) - 1 = 2 * AcceptedCount(prev_outcomes)

\* C8: the table is append-only over the runs: the run that finds no table
\* writes the header, once, as its first line; every later write leaves what
\* the table held as a prefix of what it holds and adds the rows of the run
\* and no header.
C8_AppendOnly ==
    [][ /\ csv.exists =>
            /\ csv'.exists
            /\ IsPrefix(csv.lines, csv'.lines)
            /\ HeaderLines(csv'.lines) = HeaderLines(csv.lines)
            /\ csv' # csv => csv'.lines = csv.lines \o relativizer_dict_list
        /\ (~csv.exists /\ csv'.exists) =>
            /\ csv'.lines = <<Header>> \o relativizer_dict_list
            /\ HeaderLines(csv'.lines) = 1 ]_vars

\* The second run has appended its rows to the table the first run created.
C8_Witness ==
    /\ run = 2 /\ pc = "idle"
    /\ AcceptedCount(prev_outcomes) > 0
    /\ AcceptedCount(outcomes) > 0
    /\ csv.exists
    /\ Len(csv.lines) =
            1 + AcceptedCount(prev_outcomes) + AcceptedCount(outcomes)

\* C9: the same rcmod token of the same parse, with the same SBAR spans,
\* processed in two runs has the same outcome: none twice, or two records of
\* the same rc_type and the same clause.
C9_SameOutcomeEachRun ==
    \A k \in 1..Min(Len(outcomes), Len(prev_outcomes)) :
        LET c == outcomes[k].result
            d == prev_outcomes[k].result
        IN  /\ c.ok = d.ok
            /\ c.ok => /\ c.rc_type = d.rc_type
                       /\ c.relative_clause = d.relative_clause

\* C10, as stated: two zero relatives scored by the gate that agree on the
\* distance from head noun to clause verb, the head noun and the clause
\* tokens have the same score and the same decision.
C10_ScoreOfThreeInputs ==
    \A o1, o2 \in Calls :
        LET c == o1.result
            d == o2.result
        IN  (/\ c.gated /\ d.gated
             /\ c.index_of_word - c.index_of_head_noun
                    = d.index_of_word - d.index_of_head_noun
             /\ c.head_noun = d.head_noun
             /\ c.rc_words = d.rc_words)
            => c.confidence_score = d.confidence_score /\ c.ok = d.ok

\* C10, amended: two zero relatives scored by the gate that agree on the
\* distance, the head noun, the clause tokens and on whether a token at or
\* after the clause verb is a dobj or iobj dependent of it have the same score
\* and the same decision.
C10_ScoreOfFourInputs ==
    \A o1, o2 \in Calls :
        LET c == o1.result
            d == o2.result
        IN  (/\ c.gated /\ d.gated
             /\ c.index_of_word - c.index_of_head_noun
                    = d.index_of_word - d.index_of_head_noun
             /\ c.head_noun = d.head_noun
             /\ c.rc_words = d.rc_words
             /\ HasObjectAfterVerb(parser[o1.sent], c.index_of_word)
                    = HasObjectAfterVerb(parser[o2.sent], d.index_of_word))
            => c.confidence_score = d.confidence_score /\ c.ok = d.ok

\* Two scored zero relatives of two sentences whose parses differ, equal in
\* the four inputs and in score.
C10_Witness ==
    \E o1, o2 \in Calls :
        /\ o1.sent # o2.sent
        /\ parser[o1.sent].rels # parser[o2.sent].rels
        /\ o1.result.gated /\ o2.result.gated
        /\ o1.result.index_of_word - o1.result.index_of_head_noun
                = o2.result.index_of_word - o2.result.index_of_head_noun
        /\ o1.result.head_noun = o2.result.head_noun
        /\ o1.result.rc_words = o2.result.rc_words
        /\ HasObjectAfterVerb(parser[o1.sent], o1.result.index_of_word)
                = HasObjectAfterVerb(parser[o2.sent], o2.result.index_of_word)
        /\ o1.result.confidence_score = o2.result.confidence_score

\* The filters and the classifier a call runs when none rejects, in the order
\* of the chain; the gate is for zero relatives only.
ChainOrder(c) ==
    <<"manner", "complement", "pp_fronted", "aux_fragment">>
    \o (IF c.relativizer = "zero" THEN <<"gate">> ELSE <<>>)
    \o <<"classifier">>

\* The filter that made a call return none at the place `why`.
RejectingFilter(why) ==
    IF why \in {"too_short", "parenthetical", "contraction", "low_confidence"}
    THEN "gate" ELSE why

FilterReturns ==
    {"manner", "complement", "pp_fronted", "aux_fragment", "too_short",
     "parenthetical", "contraction", "low_confidence"}

\* C11: the filters run in the order manner, complement, PP-fronted,
\* auxiliary fragment, confidence gate; what a call ran is a beginning of that
\* order, ended by the filter that rejected: no later filter and no
\* classifier ran after a rejection, and a record ran them all.
C11_ShortCircuitInOrder ==
    \A o \in Calls :
        LET c == o.result
        IN  /\ IsPrefix(c.evaluated, ChainOrder(c))
            /\ c.why \in FilterReturns =>
                /\ c.evaluated # <<>>
                /\ c.evaluated[Len(c.evaluated)] = RejectingFilter(c.why)
            /\ c.ok => c.evaluated = ChainOrder(c)

\* A call rejected by the second filter ran the first two filters and nothing
\* else, next to a call that ran the whole chain and gave a record.
C11_Witness ==
    /\ \E o \in Calls :
        /\ o.result.why = "complement"
        /\ o.result.evaluated = <<"manner", "complement">>
    /\ \E o \in Calls :
        /\ o.result.ok
        /\ o.result.evaluated =
            <<"manner", "complement", "pp_fronted", "aux_fragment",
              "classifier">>

\* The five filters, each evaluated alone on the candidate of a call that
\* reached the chain: TRUE for reject.  The gate rejects when it returns None,
\* an exception raised in it included.
FilterVerdicts(c, text, dataset) ==
    <<_looks_like_manner_clause(c.head_noun_lower, c.relativizer, c.rc_words),
      _is_complement_clause(c.head_noun_lower, c.head_noun_in_main_clause,
                            c.relativizer_role, c.relativizer),
      _is_pp_fronted_without_gap(c.head_noun_lower, c.relativizer_role,
                                 c.preposition_before_relativizer, c.rc_words),
      _is_aux_fragment(c.relativizer, c.rc_words),
      Gate([c EXCEPT !.why = ""], text, dataset).why # "">>

RECURSIVE RunChain(_, _, _)
\* The chain run in the order `order` from its k-th filter on, stopping at
\* the first filter that rejects: TRUE when the candidate is rejected.
RunChain(order, verdicts, k) ==
    IF k > Len(verdicts) THEN FALSE
    ELSE IF verdicts[order[k]] THEN TRUE
    ELSE RunChain(order, verdicts, k + 1)

\* The call reached the filter chain.
ReachedChain(c) == c.evaluated # <<>>

\* The call was rejected in the chain (a filter, or the gate, returned None).
RejectedInChain(c) ==
    ReachedChain(c) /\ ~c.ok /\ c.evaluated[Len(c.evaluated)] # "classifier"

\* C12: the verdict of the filter chain does not depend on the order of the
\* five filters: a candidate that reached the chain is rejected by the code
\* exactly when the chain run in any order of the filters rejects it, which is
\* exactly when some filter, evaluated alone, rejects it.
C12_OrderIndependent ==
    \A o \in Calls :
        ReachedChain(o.result) =>
            \A verdicts \in {FilterVerdicts(o.result, parser[o.sent].text,
                                            parser[o.sent])} :
                /\ RejectedInChain(o.result)
                    <=> \E k \in 1..5 : verdicts[k]
                /\ \A order \in Permutations(1..5) :
                    RunChain(order, verdicts, 1) <=> RejectedInChain(o.result)

\* A candidate that the complement filter alone rejects, next to one that no
\* filter rejects.
C12_Witness ==
    \E o \in Calls :
        /\ ReachedChain(o.result)
        /\ FilterVerdicts(o.result, parser[o.sent].text, parser[o.sent])
            = <<FALSE, TRUE, FALSE, FALSE, FALSE>>
        /\ \E o2 \in Calls :
            /\ o2.result.ok
            /\ FilterVerdicts(o2.result, parser[o2.sent].text, parser[o2.sent])
                = <<FALSE, FALSE, FALSE, FALSE, FALSE>>

\* The file of a sentence.
SentFile(name) ==
    CHOOSE f \in 1..Len(input_files) :
        \E k \in 1..Len(input_files[f]) : input_files[f][k] = name

\* The rows of the records among calls, in their order.
RowsOf(calls) ==
    LET accepted == SelectSeq(calls, LAMBDA o : o.result.ok)
    IN  [k \in 1..Len(accepted) |->
            Row(accepted[k].result, SentFile(accepted[k].sent),
                parser[accepted[k].sent].text)]

\* The calls made for a sentence.
CallsOf(name) == SelectSeq(outcomes, LAMBDA o : o.sent = name)

\* A run has ended.
RunEnded == pc = "idle" /\ run >= 1

\* The run is past the sentence.
Handled(name) ==
    \/ file_index > SentFile(name)
    \/ /\ file_index = SentFile(name)
       /\ pc = "sentences"
       /\ \E k \in 1..(sent_index - 1) : input_files[file_index][k] = name

CascadeRoles == SubjectRoles \cup {"dobj", "iobj", "pobj"} \cup NonVerbalRoles

\* No token strictly between head noun and clause verb of the call carries a
\* role of the cascade.
NoRoleBetween(o) ==
    \A j \in (o.result.index_of_head_noun + 1)..(o.result.index_of_word - 1) :
        PyGet(parser[o.sent].rels, j) \notin CascadeRoles

\* C14: a zero-relative record with no subject, object or
\* poss/nmod/compound token strictly between head noun and clause verb has
\* the type given by the head noun's own relation: Other for
\* poss/nmod/compound, SRC otherwise, a dobj or iobj head noun included.
C14_ZeroFallsBackToHeadRelation ==
    \A o \in Calls :
        (o.result.ok /\ o.result.relativizer = "zero" /\ NoRoleBetween(o)) =>
            o.result.rc_type =
                IF o.result.head_noun_in_main_clause \in NonVerbalRoles
                THEN "Other" ELSE "SRC"

\* Some token strictly between the relativizer and the clause verb of the
\* call is a subject and no relativizer word.
InterveningSubject(o) ==
    \E j \in (o.result.index_of_relativizer + 1)..(o.result.index_of_word - 1) :
        /\ PyGet(parser[o.sent].rels, j) \in SubjectRoles
        /\ PyGet(parser[o.sent].words, j) \notin relativizer_list

\* The record has an explicit relativizer that none of rules 1 to 5 names:
\* its role is no subject, object, mark or poss/nmod/compound role and the
\* head noun's relation is not poss/nmod/compound.
OutsideRules(o) ==
    /\ o.result.ok
    /\ o.result.relativizer # "zero"
    /\ o.result.relativizer_role \notin
        SubjectRoles \cup {"dobj", "iobj", "pobj", "mark"} \cup NonVerbalRoles
    /\ o.result.head_noun_in_main_clause \notin NonVerbalRoles

\* C15: a record with an explicit relativizer outside rules 1 to 5 and with
\* a subject, not a relativizer word, strictly between relativizer and clause
\* verb has type ORC, whatever the relativizer word.
C15_InterveningSubjectIsORC ==
    \A o \in Calls :
        (OutsideRules(o) /\ InterveningSubject(o)) => o.result.rc_type = "ORC"

\* The token before the relativizer of the call is a preposition: its tag is
\* IN or it is a word of the closed list.
PrepositionBefore(o) ==
    LET idx == o.result.index_of_relativizer
        p == parser[o.sent]
    IN  /\ idx > 0
        /\ \/ PyGet(p.tags, idx - 1) = "IN"
           \/ Lower(PyGet(p.words, idx - 1)) \in common_preps

\* C16: a record whose relativizer has role pobj and stands immediately after
\* a preposition is SRC with the fronted-PP passive pattern, never ORC.
C16_FrontedPPIsSRC ==
    \A o \in Calls :
        (/\ o.result.ok
         /\ o.result.relativizer # "zero"
         /\ o.result.relativizer_role = "pobj"
         /\ PrepositionBefore(o)) =>
            /\ o.result.rc_type = "SRC"
            /\ o.result.structure_pattern = "NP + Prep + Comp + Verb (passive)"

\* Such a record, its relativizer after a token that is no word of the
\* closed list and has the tag IN ("near whom").
C16_Witness ==
    \E o \in Calls :
        /\ o.result.ok
        /\ o.result.relativizer = "whom"
        /\ o.result.relativizer_role = "pobj"
        /\ PrepositionBefore(o)
        /\ Lower(PyGet(parser[o.sent].words, o.result.index_of_relativizer - 1))
            \notin common_preps
        /\ o.result.rc_type = "SRC"

\* w is one of the tokens of the span.
HasToken(span, w) == \E k \in 1..Len(Split(span)) : Split(span)[k] = w

\* The SBAR spans of the call's sentence that hold both the clause verb and
\* the relativizer as tokens.
QualifyingSpans(o) ==
    LET p == parser[o.sent]
        subtrees == acquire_subtrees(p.text, p.trees[1])
    IN  {span \in {subtrees[k] : k \in 1..Len(subtrees)} :
            /\ HasToken(span, o.result.clause_verb)
            /\ HasToken(span, o.result.relativizer)}

\* C17: the span extracted for an explicit relativizer is one of the SBAR
\* spans that hold the clause verb and the relativizer as tokens, and none of
\* these has fewer tokens.
C17_MinimalTokenSpan ==
    \A o \in Calls :
        (o.result.relativizer \notin {"", "zero"}
         /\ o.result.relative_clause # "") =>
            /\ o.result.relative_clause \in QualifyingSpans(o)
            /\ \A span \in QualifyingSpans(o) :
                Len(Split(span)) >= Len(o.result.rc_words)

\* C18: whatever the relativizer word found, when some SBAR span of the
\* sentence holds the clause verb and that relativizer, the extraction gives a
\* span: the candidate is not rejected for an empty one.
C18_EveryRelativizerHasSpan ==
    \A o \in Calls :
        (o.result.relativizer \notin {"", "zero"} /\ QualifyingSpans(o) # {})
            => o.result.relative_clause # ""

\* The four factors of the score that do not look for an object.
OtherFactors(c) ==
    DistanceScore(c.index_of_word - c.index_of_head_noun)
    + HeadNounScore(c.head_noun_lower)
    + PronounScore(c.head_noun_lower, c.rc_words)
    + LengthScore(c.rc_words)

\* C19: the object-gap factor of a scored zero relative is +2 exactly when
\* no token of the sentence, before or after the clause verb, is a dobj or
\* iobj of the clause verb.
C19_ObjectGapAnywhere ==
    \A o \in Calls :
        o.result.gated =>
            o.result.confidence_score - OtherFactors(o.result) =
                IF HasObjectDependent(parser[o.sent], o.result.index_of_word)
                THEN 0 ELSE 2

\* The token ends in "ed" or is an irregular participle of the list.
ParticipleLooking(t) ==
    (Len(t) >= 2 /\ SubSeq(t, Len(t) - 1, Len(t)) = "ed")
    \/ t \in irregular_passive_verbs

\* (a) some token is a passive auxiliary and the token after it looks like a
\* participle.
AuxiliaryThenParticiple(tokens) ==
    \E j \in 1..(Len(tokens) - 1) :
        tokens[j] \in passive_auxiliaries /\ ParticipleLooking(tokens[j + 1])

\* (b) some modal is followed, within the next three tokens, by a passive
\* auxiliary with a participle-looking token after it.
ModalThenPassive(tokens) ==
    \E i \in 1..Len(tokens) :
        /\ tokens[i] \in modal_aux_tokens
        /\ \E j \in (i + 1)..Min(i + 3, Len(tokens) - 1) :
            /\ tokens[j] \in passive_auxiliaries
            /\ ParticipleLooking(tokens[j + 1])

\* C20: the passive detector returns true on a clause exactly when, on its
\* normalized tokens, (a) or (b) holds; the window of a modal left at its
\* first passive auxiliary changes nothing.
C20_PassiveIffAuxiliaryParticiple ==
    passive_call.returned =>
        \A tokens \in {NormalizedTokens(passive_call.rc_words)} :
            passive_call.result
                <=> (AuxiliaryThenParticiple(tokens) \/ ModalThenPassive(tokens))

\* The detector has returned true on a clause where the first passive
\* auxiliary after the modal has no participle after it and a later one, still
\* in the window, has.
C20_Witness ==
    /\ passive_call.returned
    /\ passive_call.result
    /\ \E tokens \in {NormalizedTokens(passive_call.rc_words)} :
        \E i \in 1..Len(tokens) :
            /\ tokens[i] \in modal_aux_tokens
            /\ \E j \in (i + 1)..Min(i + 3, Len(tokens) - 1) :
                /\ tokens[j] \in passive_auxiliaries
                /\ ~ParticipleLooking(tokens[j + 1])
                /\ \E k \in (j + 1)..Min(i + 3, Len(tokens) - 1) :
                    /\ tokens[k] \in passive_auxiliaries
                    /\ ParticipleLooking(tokens[k + 1])

\* The dependency arrays of the parse do not have one length.
InconsistentLengths(p) ==
    ~p.failed /\ Cardinality({Len(p.words), Len(p.tags), Len(p.rels),
                              Len(p.arcs)}) > 1

\* C21: a sentence whose dependency arrays have inconsistent lengths gives no
\* record, for none of its rcmod tokens.
C21_MalformedParseNoRecord ==
    \A o \in Calls : InconsistentLengths(parser[o.sent]) => ~o.result.ok

(***************************************************************************)
(* Two runs of the program started side by side on the same input and      *)
(* output folders, each at lines 749-769 with the rows it has accepted: it *)
(* asks whether the table exists, then writes.  Nothing orders the steps   *)
(* of one run with those of the other.  prev_outcomes holds the calls of   *)
(* the run that wrote the table before them, if there was one.             *)
(***************************************************************************)

RECURSIVE CallsFrom(_, _, _)
\* The calls of a whole run from sentence k of file f on, in order.
CallsFrom(f, k, seed) ==
    IF f > Len(input_files) THEN <<>>
    ELSE IF k > Len(input_files[f]) THEN CallsFrom(f + 1, 1, seed)
    ELSE LET name == input_files[f][k]
             results == SentenceOutcomes(parser[name], seed)
         IN  [j \in 1..Len(results) |-> [sent |-> name, result |-> results[j]]]
             \o CallsFrom(f, k + 1, seed)

\* The parser's outputs for "X" in these runs.
WriterInputs == {Gold[g] : g \in 1..Len(Gold)} \cup {ParseFailure}

InitWriters ==
    /\ \E x \in WriterInputs : parser = Corpus(x)
    /\ pc = "idle"
    /\ run = 0
    /\ hash_seed = 0
    /\ file_index = 1
    /\ sent_index = 1
    /\ relativizer_dict_list = <<>>
    /\ outcomes = <<>>
    /\ prev_outcomes \in {<<>>, CallsFrom(1, 1, 0)}
    /\ csv = IF prev_outcomes = <<>> THEN [exists |-> FALSE, lines |-> <<>>]
             ELSE to_csv([exists |-> FALSE, lines |-> <<>>],
                         RowsOf(prev_outcomes))
    /\ passive_call = NoPassiveCall
    /\ tidy_call = NoTidyCall
    /\ download = NoDownload
    /\ \E seeds \in [Writers -> 0..(NumHashSeeds - 1)] :
        writers = [w \in Writers |->
                    [pc |-> "check", file_exists |-> FALSE,
                     rows |-> RowsOf(CallsFrom(1, 1, seeds[w]))]]

\* Lines 750-761: with rows to write, file_exists = os.path.exists(output_path).
CheckExists(w) ==
    /\ writers[w].pc = "check"
    /\ writers' =
        [writers EXCEPT
            ![w].pc = IF Len(writers[w].rows) = 0 THEN "done" ELSE "write",
            ![w].file_exists =
                IF Len(writers[w].rows) = 0 THEN FALSE ELSE csv.exists]
    /\ UNCHANGED <<parser, pc, run, hash_seed, file_index, sent_index,
                   relativizer_dict_list, csv, outcomes, prev_outcomes,
                   passive_call, scripts>>

\* Lines 762-769 with the answer a run got before: mode 'a' without header
\* adds the rows to what the table holds; the default mode 'w' replaces the
\* table by the header and the rows.
WriteTable(table, file_exists, rows) ==
    IF file_exists THEN [exists |-> TRUE, lines |-> table.lines \o rows]
    ELSE [exists |-> TRUE, lines |-> <<Header>> \o rows]

\* Lines 762-769: df.to_csv.
WriteRows(w) ==
    /\ writers[w].pc = "write"
    /\ csv' = WriteTable(csv, writers[w].file_exists, writers[w].rows)
    /\ writers' = [writers EXCEPT ![w].pc = "done"]
    /\ UNCHANGED <<parser, pc, run, hash_seed, file_index, sent_index,
                   relativizer_dict_list, outcomes, prev_outcomes,
                   passive_call, scripts>>

NextWriters == \E w \in Writers : CheckExists(w) \/ WriteRows(w)

SpecWriters == InitWriters /\ [][NextWriters]_vars

\* rows stand in lines, one after the other, from line k + 1 on.
RowsAt(lines, rows, k) ==
    k + Len(rows) <= Len(lines) /\ SubSeq(lines, k + 1, k + Len(rows)) = rows

\* C22: when both runs have written, the table has one header line, its
\* first, and under it the rows that were there and all the rows of both runs,
\* those of each run together.
C22_BothRunsWritten ==
    (\A w \in Writers : writers[w].pc = "done") =>
        /\ csv.exists
        /\ HeaderLines(csv.lines) = 1
        /\ csv.lines[1] = Header
        /\ Len(csv.lines) =
            1 + Len(RowsOf(prev_outcomes))
              + Len(writers["first"].rows) + Len(writers["second"].rows)
        /\ \A w \in Writers :
            \E k \in 1..Len(csv.lines) : RowsAt(csv.lines, writers[w].rows, k)

\* C23: in every record, head_noun_in_rc is "zero" exactly when relativizer
\* is "zero".
C23_ZeroRoleIffZeroRelativizer ==
    \A o \in Calls :
        o.result.ok =>
            (o.result.head_noun_in_rc = "zero" <=> o.result.relativizer = "zero")

\* C24: a candidate whose head pointer is 0 (head index -1) yields no record:
\* every record has its head index in 0..verb-1 and its head_noun is the
\* token at that index.
C24_HeadIndexInSentence ==
    \A o \in Calls :
        o.result.ok =>
            /\ o.result.index_of_head_noun \in 0..(o.result.index_of_word - 1)
            /\ o.result.head_noun =
                parser[o.sent].words[o.result.index_of_head_noun + 1]

\* A call that took its candidate as a zero relative on a manner head noun.
ZeroOnMannerHead(c) ==
    c.relativizer = "zero" /\ c.head_noun_lower \in manner_head_nouns

TypeUnderPassive(c, dataset, passive_like) ==
    LET p == [c EXCEPT !.passive_like = passive_like]
    IN  IF p.relativizer # "zero" THEN ClassifyExplicit(p, dataset)
        ELSE ClassifyZero(p, dataset)

\* C26: the answer of the passive heuristic never changes rc_type: for every
\* record, the cascade gives the same type with the heuristic answering yes
\* and answering no; only structure_pattern may differ.
C26_PassiveNeverChangesType ==
    \A o \in Calls :
        o.result.ok =>
            /\ TypeUnderPassive(o.result, parser[o.sent], TRUE).rc_type
                = o.result.rc_type
            /\ TypeUnderPassive(o.result, parser[o.sent], FALSE).rc_type
                = o.result.rc_type

\* A record of a passive clause with an nsubjpass relativizer: the heuristic
\* answered yes, and its answer decides the structure pattern.
C26_Witness ==
    \E o \in Calls :
        /\ o.result.ok
        /\ o.result.passive_like
        /\ o.result.relativizer_role = "nsubjpass"
        /\ o.result.structure_pattern = "NP + Comp + Verb + NP2 (passive)"
        /\ TypeUnderPassive(o.result, parser[o.sent], FALSE).structure_pattern
            # o.result.structure_pattern

\* A candidate the gate has scored, no farther than 10 from its head noun and
\* with no dobj/iobj dependent of the clause verb at or after it.
ScoredNearWithoutObject(c) ==
    /\ c.gated
    /\ c.index_of_word - c.index_of_head_noun <= 10
    /\ ~c.has_object

\* C27: a zero relative that passed the hard pre-rejects, at a filler-gap
\* distance of at most 10 and with no object of the clause verb at or after
\* it, has a score of at least -1 and is accepted by the gate.
C27_ScoreRejectNeedsObjectOrDistance ==
    \A o \in Calls :
        ScoredNearWithoutObject(o.result) =>
            /\ o.result.confidence_score >= 0 - 1
            /\ o.result.why # "low_confidence"
            /\ o.result.ok

\* The lowest score of such a candidate, -1, was reached and accepted.
C27_Witness ==
    \E o \in Calls :
        /\ ScoredNearWithoutObject(o.result)
        /\ o.result.index_of_word - o.result.index_of_head_noun > 7
        /\ o.result.confidence_score = 0 - 1
        /\ o.result.ok

(***************************************************************************)
(* Runs over input files whose other sentences have no relative clause,    *)
(* with the table absent or written by an earlier run: a run in which "X"  *)
(* yields no record accepts no candidate at all.                           *)
(***************************************************************************)

\* A sentence without an rcmod token.
PlainSentence ==
    Parsed(<<"the", "man", "left">>,
           <<"DT", "NN", "VBD">>,
           <<"det", "nsubj", "root">>,
           <<2, 3, 0>>,
           <<Node("S", 0, 3), Node("NP", 0, 2), Node("VP", 2, 3)>>)

CorpusPlain(x) == [n \in SentenceNames |-> IF n = "X" THEN x ELSE PlainSentence]

\* The table as an earlier run over 'The book that I read was good' left it.
EarlierTable ==
    to_csv([exists |-> FALSE, lines |-> <<>>],
           <<Row(SentenceOutcomes(BookSentence, 0)[1], 1, BookSentence.text)>>)

InitStore ==
    /\ \E x \in WriterInputs : parser = CorpusPlain(x)
    /\ pc = "idle"
    /\ run = 0
    /\ hash_seed = 0
    /\ file_index = 1
    /\ sent_index = 1
    /\ relativizer_dict_list = <<>>
    /\ csv \in {[exists |-> FALSE, lines |-> <<>>], EarlierTable}
    /\ outcomes = <<>>
    /\ prev_outcomes = <<>>
    /\ passive_call = NoPassiveCall
    /\ writers = NoWriters
    /\ tidy_call = NoTidyCall
    /\ download = NoDownload

SpecStore == InitStore /\ [][Next]_vars

\* The step that ends a run: lines 749-776, after the loop over the files.
RunEnds == pc = "open" /\ file_index > Len(input_files) /\ pc' = "idle"

\* C28: the table changes only in the step that ends a run, after all the
\* input files, hence at most once in a run; and a run that accepted no
\* candidate ends with an empty table of results and leaves the stored table
\* as it was, absent or present.
C28_EmptyRunLeavesStore ==
    [][/\ csv' # csv => RunEnds
       /\ (RunEnds /\ AcceptedCount(outcomes) = 0) =>
            (csv' = csv /\ relativizer_dict_list = <<>>)]_vars

\* A run that looked at a candidate and accepted none has ended, and the
\* table of the earlier run is as it was.
C28_Witness ==
    /\ pc = "idle"
    /\ run >= 1
    /\ outcomes # <<>>
    /\ AcceptedCount(outcomes) = 0
    /\ csv = EarlierTable

(***************************************************************************)
(* tidy.py: the punctuation pass of main over one word of                  *)
(* re.split(' ', body), lines 51-71.                                       *)
(***************************************************************************)

\* The white space a word of the split may still hold.
Whitespace == {" ", "\t", "\n"}

RECURSIVE JoinSplit(_, _)
\* (ch + " ").join(word.split(ch)) for a one-character ch.
JoinSplit(word, ch) ==
    IF Len(word) = 0 THEN ""
    ELSE (IF Char(word, 1) = ch THEN ch \o " " ELSE Char(word, 1))
         \o JoinSplit(Tail(word), ch)

\* bool(s) of a str.
Truthy(s) == Len(s) > 0

\* Line 59: ("a" or "p" in word.lower() and "m" in word.lower()).  `in` binds
\* tighter than `and`, `and` tighter than `or`, and `or` gives its first
\* operand when it is truthy.
AmPmTest(word) ==
    \/ Truthy("a")
    \/ IsSubstr("p", Lower(word)) /\ IsSubstr("m", Lower(word))

\* Lines 57-59: the condition of the period rule.
PeriodRule(word, word_test) ==
    /\ IsSubstr(".", word)
    /\ (Char(word, Len(word)) # "." \/ IsSubstr(".", word_test))
    /\ ~IsSubstr(".)", word)
    /\ ~IsSubstr(".com", word)
    /\ ~IsSubstr(".org", word)
    /\ ~IsSubstr(".net", word)
    /\ ~IsSubstr(".edu", word)
    /\ ~IsSubstr("...", word)
    /\ ~AmPmTest(word)

\* Lines 62, 65, 68, 71: the condition of the rule of the mark ch.
MarkRule(word, ch) == IsSubstr(ch, word) /\ Char(word, Len(word)) # ch

\* Lines 62-73: word after the rules of the marks `marks`, in order.
RECURSIVE MarkRules(_, _)
MarkRules(word, marks) ==
    IF Len(marks) = 0 THEN word
    ELSE MarkRules(IF MarkRule(word, marks[1]) THEN JoinSplit(word, marks[1])
                   ELSE word,
                   Tail(marks))

\* Lines 52-73 for the word `init`: words_init[i] after the pass.  Only a rule
\* that fires assigns it; the stripped word is not stored otherwise.
CorrectPunctuation(init) ==
    LET word_test == IF Len(init) # 0 THEN SubSeq(init, 1, Len(init) - 1)
                     ELSE ""
        word == Strip(init, Whitespace)
        dotted == IF PeriodRule(word, word_test) THEN JoinSplit(word, ".")
                  ELSE word
        marked == MarkRules(dotted, <<"!", "?", ",", ";">>)
    IN  IF marked # word THEN marked ELSE init

MaxWordLen == 3

TidyAlphabet == {"e", "S", "m", ".", "!", ")"}

RECURSIVE WordsOfLen(_)
WordsOfLen(n) ==
    IF n = 0 THEN {""}
    ELSE {w \o c : w \in WordsOfLen(n - 1), c \in TidyAlphabet}

\* The words given to the pass: every word of the alphabet up to MaxWordLen,
\* and words of a text.
TidyWords ==
    UNION {WordsOfLen(n) : n \in 0..MaxWordLen}
    \cup {"end.Start", "a.m.", "3.p.m", "site.com", "(e.g.)", "wait...what",
          "out.\n", "U.S.", "no,yes"}

InitTidy ==
    /\ \E x \in {BookSentence} : parser = Corpus(x)
    /\ pc = "idle"
    /\ run = 0
    /\ hash_seed = 0
    /\ file_index = 1
    /\ sent_index = 1
    /\ relativizer_dict_list = <<>>
    /\ csv = [exists |-> FALSE, lines |-> <<>>]
    /\ outcomes = <<>>
    /\ prev_outcomes = <<>>
    /\ passive_call = NoPassiveCall
    /\ writers = NoWriters
    /\ download = NoDownload
    /\ \E w \in TidyWords :
        tidy_call = [word |-> w, returned |-> FALSE, result |-> ""]

CorrectWord ==
    /\ ~tidy_call.returned
    /\ tidy_call' =
        [tidy_call EXCEPT !.returned = TRUE,
                          !.result = CorrectPunctuation(tidy_call.word)]
    /\ UNCHANGED <<parser, pc, run, hash_seed, file_index, sent_index,
                   relativizer_dict_list, csv, outcomes, prev_outcomes,
                   passive_call, writers, download>>

SpecTidy == InitTidy /\ [][CorrectWord]_vars

\* The word has a period before its last character.
InteriorPeriod(word) ==
    Len(word) > 1 /\ IsSubstr(".", SubSeq(word, 1, Len(word) - 1))

\* The word holds one of the strings the rule spares.
SparedByRule(word) ==
    \E x \in {".)", ".com", ".org", ".net", ".edu", "..."} : IsSubstr(x, word)

\* An a.m./p.m. token: an a or a p, and an m.
AmPmToken(word) ==
    /\ IsSubstr("a", Lower(word)) \/ IsSubstr("p", Lower(word))
    /\ IsSubstr("m", Lower(word))

\* C29: a word with a period before its last character, none of the spared
\* strings in it and not an a.m./p.m. token, comes out of the pass rewritten,
\* every period before the end followed by a space.
C29_InteriorPeriodSpaced ==
    (/\ tidy_call.returned
     /\ InteriorPeriod(tidy_call.word)
     /\ ~SparedByRule(tidy_call.word)
     /\ ~AmPmToken(tidy_call.word)) =>
        /\ tidy_call.result # tidy_call.word
        /\ \A i \in 1..(Len(tidy_call.result) - 1) :
            Char(tidy_call.result, i) = "." =>
                Char(tidy_call.result, i + 1) = " "

(***************************************************************************)
(* download_models.py: main, one step for each turn of its loops.  The     *)
(* archive of a model on disk is absent, partial (a download that broke    *)
(* off left it) or complete; the network and the disk decide whether a     *)
(* download or an extraction succeeds.  tried and unzipped keep, for the   *)
(* properties, what download_file and unzip_model returned.                *)
(***************************************************************************)

\* Lines 60-67: the URLs of each model.
NumUrls == 2

\* unzip_model (lines 31-48): what it may leave and return.  An archive that
\* is not complete is no zip file; a complete one may still fail to extract.
unzip_model(archive, extracted) ==
    IF extracted THEN {[extracted |-> TRUE, returned |-> "already"]}
    ELSE IF archive = "complete"
    THEN {[extracted |-> TRUE, returned |-> "ok"],
          [extracted |-> FALSE, returned |-> "failed"]}
    ELSE {[extracted |-> FALSE, returned |-> "failed"]}

\* download_file (lines 13-29): True with the archive complete, or False with
\* whatever urlretrieve had written.
download_file ==
    {[archive |-> "complete", returned |-> TRUE],
     [archive |-> "partial", returned |-> FALSE],
     [archive |-> "absent", returned |-> FALSE]}

\* The loop of line 77 going on to the model after m.
AfterModel(d, m) ==
    IF m + 1 \in Models THEN [d EXCEPT !.pc = "model", !.model = m + 1]
    ELSE [d EXCEPT !.pc = "report"]

\* Lines 83-84 and 99-100: unzip_model called, its result dropped, and the
\* model counted.
UnzipAndCount(d, m, u) ==
    [d EXCEPT !.extracted[m] = u.extracted,
              !.unzipped[m] = u.returned,
              !.success_count = @ + 1]

InitDownload ==
    /\ \E x \in {BookSentence} : parser = Corpus(x)
    /\ pc = "idle"
    /\ run = 0
    /\ hash_seed = 0
    /\ file_index = 1
    /\ sent_index = 1
    /\ relativizer_dict_list = <<>>
    /\ csv = [exists |-> FALSE, lines |-> <<>>]
    /\ outcomes = <<>>
    /\ prev_outcomes = <<>>
    /\ passive_call = NoPassiveCall
    /\ writers = NoWriters
    /\ tidy_call = NoTidyCall
    /\ \E archive \in [Models -> {"absent", "partial", "complete"}],
          extracted \in [Models -> BOOLEAN] :
        download = [NoDownload EXCEPT !.pc = "model", !.archive = archive,
                                      !.extracted = extracted]

\* Lines 77-88: the archive is there, or the URLs are to be tried.
BeginModel ==
    /\ download.pc = "model"
    /\ LET m == download.model
       IN  IF download.archive[m] # "absent"
           THEN \E u \in unzip_model(download.archive[m],
                                     download.extracted[m]) :
                    download' = AfterModel(UnzipAndCount(download, m, u), m)
           ELSE download' = [download EXCEPT !.pc = "urls", !.url = 1]
    /\ UNCHANGED <<parser, pc, run, hash_seed, file_index, sent_index,
                   relativizer_dict_list, csv, outcomes, prev_outcomes,
                   passive_call, writers, tidy_call>>

\* Lines 89-107: one URL tried; on success, or after the last URL, lines
\* 97-107.
TryUrl ==
    /\ download.pc = "urls"
    /\ LET m == download.model
       IN  \E r \in download_file :
            LET d == [download EXCEPT
                        !.archive[m] = r.archive,
                        !.tried[m] = @ \o <<[url |-> download.url,
                                             returned |-> r.returned]>>]
            IN  IF r.returned
                THEN \E u \in unzip_model(d.archive[m], d.extracted[m]) :
                        download' = AfterModel(UnzipAndCount(d, m, u), m)
                ELSE IF download.url < NumUrls
                THEN download' = [d EXCEPT !.url = @ + 1]
                ELSE download' = AfterModel(d, m)
    /\ UNCHANGED <<parser, pc, run, hash_seed, file_index, sent_index,
                   relativizer_dict_list, csv, outcomes, prev_outcomes,
                   passive_call, writers, tidy_call>>

\* Lines 109-117: the final message.
Report ==
    /\ download.pc = "report"
    /\ download' =
        [download EXCEPT
            !.pc = "done",
            !.announced = download.success_count = Cardinality(Models)]
    /\ UNCHANGED <<parser, pc, run, hash_seed, file_index, sent_index,
                   relativizer_dict_list, csv, outcomes, prev_outcomes,
                   passive_call, writers, tidy_call>>

NextDownload == BeginModel \/ TryUrl \/ Report

SpecDownload == InitDownload /\ [][NextDownload]_vars

\* The URLs of model m were tried in order, each after the failure of the one
\* before, and none after a success.
TriedInOrder(m) ==
    LET t == download.tried[m]
    IN  \A k \in 1..Len(t) :
            /\ t[k].url = k
            /\ k < Len(t) => ~t[k].returned

\* C30: the final message of success is printed only if the archive of every
\* model is complete, downloaded from the first URL of its list that
\* succeeded, and was extracted without error.
C30_SuccessMeansDownloadedAndExtracted ==
    download.announced =>
        \A m \in Models :
            /\ download.archive[m] = "complete"
            /\ download.unzipped[m] \in {"ok", "already"}
            /\ download.extracted[m]
            /\ TriedInOrder(m)

=============================================================================
